---- MODULE Spec2Model ----
(***************************************************************************)
(* Verification model of the L3 HA router support:                         *)
(*   neutron/db/l3_hamode_db.py            VRID allocation, HA flag        *)
(*   neutron/agent/linux/external_process.py   ProcessManager              *)
(*   neutron/agent/linux/keepalived.py     KeepalivedManager               *)
(***************************************************************************)
EXTENDS Integers, Sequences, FiniteSets, TLC

(***************************************************************************)
(* Bounds of the model.                                                    *)
(***************************************************************************)
\* router rows that the requests of a run may create
MaxRouters == 2
\* l3 agents that a request may find
MaxAgents == 4
\* the highest value given to min_ and max_l3_agents_per_router
MaxOpt == 3

(***************************************************************************)
(* Python 2 set of small integers (hash(i) = i), as `set(...)`,            *)
(* `VR_ID_RANGE - allocated_vr_ids` and `available_vr_ids.pop()` build and *)
(* read it: an open-addressed table of 8 * 4^k slots, a key at slot        *)
(* hash & mask unless taken, pop() returning the first filled slot.        *)
(* A slot holds a key, NullKey (never used) or DummyKey (discarded).       *)
(***************************************************************************)
PySet_MINSIZE == 8
PERTURB_SHIFT == 5
NullKey == 0
DummyKey == -1

EmptyPySet ==
    [mask |-> PySet_MINSIZE - 1, fill |-> 0, used |-> 0,
     table |-> [i \in 0..(PySet_MINSIZE - 1) |-> NullKey]]

RECURSIVE Pow2(_)
Pow2(n) == IF n = 0 THEN 1 ELSE 2 * Pow2(n - 1)

\* the slot of `key`: the slot that holds it, or the free slot its probe
\* sequence reaches first
RECURSIVE set_lookkey(_, _, _, _, _)
set_lookkey(table, mask, key, i, perturb) ==
    LET e == i % (mask + 1)
    IN  IF table[e] = NullKey \/ table[e] = key
        THEN e
        ELSE set_lookkey(table, mask, key, 5 * e + perturb + 1,
                         perturb \div Pow2(PERTURB_SHIFT))

RECURSIVE set_newsize(_, _)
set_newsize(newsize, minused) ==
    IF newsize <= minused THEN set_newsize(2 * newsize, minused) ELSE newsize

\* the active keys of old[lo..hi] put into `new`, in slot order (the range
\* is walked by halves, lower half first)
RECURSIVE set_insert_clean(_, _, _, _, _)
set_insert_clean(old, lo, hi, new, newmask) ==
    IF lo > hi THEN new
    ELSE IF lo = hi
    THEN IF old[lo] = NullKey \/ old[lo] = DummyKey
         THEN new
         ELSE LET e == set_lookkey(new, newmask, old[lo], old[lo], old[lo])
              IN  [new EXCEPT ![e] = old[lo]]
    ELSE LET mid   == (lo + hi) \div 2
             lower == set_insert_clean(old, lo, mid, new, newmask)
         IN  IF lower[0] >= DummyKey
             THEN set_insert_clean(old, mid + 1, hi, lower, newmask)
             ELSE lower

set_table_resize(so, minused) ==
    LET newsize == set_newsize(PySet_MINSIZE, minused)
    IN  [mask |-> newsize - 1, fill |-> so.used, used |-> so.used,
         table |-> set_insert_clean(so.table, 0, so.mask,
                                    [i \in 0..(newsize - 1) |-> NullKey],
                                    newsize - 1)]

set_add_key(so, key) ==
    LET e  == set_lookkey(so.table, so.mask, key, key, key)
        s1 == [so EXCEPT !.table[e] = key, !.fill = @ + 1, !.used = @ + 1]
    IN  IF so.table[e] = key THEN so
        ELSE IF s1.fill * 3 >= (s1.mask + 1) * 2
             THEN set_table_resize(s1, IF s1.used > 50000 THEN s1.used * 2
                                                          ELSE s1.used * 4)
             ELSE s1

\* set(range(lo, hi + 1))
RECURSIVE set_from_range(_, _, _)
set_from_range(so, lo, hi) ==
    IF lo > hi THEN so
    ELSE IF lo = hi THEN set_add_key(so, lo)
    ELSE LET mid   == (lo + hi) \div 2
             lower == set_from_range(so, lo, mid)
         IN  IF lower.used >= 0 THEN set_from_range(lower, mid + 1, hi)
                                ELSE lower

\* the Python set as a mathematical set
PySetKeys(so) ==
    {so.table[i] : i \in 0..so.mask} \ {NullKey, DummyKey}

set_copy(so) ==
    LET r == IF so.used * 3 >= PySet_MINSIZE * 2
             THEN set_table_resize(EmptyPySet, so.used * 2)
             ELSE EmptyPySet
    IN  [mask |-> r.mask, fill |-> so.used, used |-> so.used,
         table |-> set_insert_clean(so.table, 0, so.mask, r.table, r.mask)]

\* so -= other: every key of `other` is looked up and, when the table holds
\* it, discarded, its slot left as a dummy (a discard moves no other key).
\* None, which NullKey stands for in `other`, is no key of an integer set.
set_difference_update(so, other) ==
    LET slots == {set_lookkey(so.table, so.mask, key, key, key) :
                     key \in other \ {NullKey}}
        found == {i \in slots : so.table[i] \in other \ {NullKey}}
    IN  [so EXCEPT !.used = @ - Cardinality(found),
                   !.table = [i \in 0..so.mask |->
                                 IF i \in found THEN DummyKey ELSE so.table[i]]]

\* the active keys of so.table[lo..hi], in slot order (what iterating over
\* the set yields)
RECURSIVE set_next(_, _, _)
set_next(so, lo, hi) ==
    IF lo > hi THEN <<>>
    ELSE IF lo = hi
    THEN IF so.table[lo] = NullKey \/ so.table[lo] = DummyKey
         THEN <<>> ELSE <<so.table[lo]>>
    ELSE LET mid   == (lo + hi) \div 2
             lower == set_next(so, lo, mid)
         IN  IF Len(lower) >= 0 THEN lower \o set_next(so, mid + 1, hi)
                                ELSE lower

\* keys[lo..hi] added to `result` one after the other
RECURSIVE set_add_entries(_, _, _, _)
set_add_entries(result, keys, lo, hi) ==
    IF lo > hi THEN result
    ELSE IF lo = hi THEN set_add_key(result, keys[lo])
    ELSE LET mid   == (lo + hi) \div 2
             lower == set_add_entries(result, keys, lo, mid)
         IN  IF lower.used >= 0
             THEN set_add_entries(lower, keys, mid + 1, hi)
             ELSE lower

\* so - other, for `entries` the keys that iterating over so yields and
\* `copy` a copy of so: the copy with the keys of `other` discarded when
\* `other` is small, and else a new set to which the keys of so that are
\* not in `other` are added
set_difference(so, entries, copy, other) ==
    IF (so.used \div 4) > Cardinality(other)
    THEN set_difference_update(copy, other)
    ELSE LET Keep(key) == key \notin other
             kept == SelectSeq(entries, Keep)
         IN  set_add_entries(EmptyPySet, kept, 1, Len(kept))

\* the first filled slot among lo..hi, or -1
RECURSIVE set_first(_, _, _)
set_first(so, lo, hi) ==
    IF lo = hi
    THEN IF so.table[lo] # NullKey /\ so.table[lo] # DummyKey THEN lo ELSE -1
    ELSE LET mid   == (lo + hi) \div 2
             lower == set_first(so, lo, mid)
         IN  IF lower # -1 THEN lower ELSE set_first(so, mid + 1, hi)

\* so.pop() of a non-empty set that was never popped before
set_pop(so) ==
    IF so.table[0] # NullKey /\ so.table[0] # DummyKey
    THEN so.table[0]
    ELSE so.table[set_first(so, 1, so.mask)]


(***************************************************************************)
(* State.                                                                  *)
(***************************************************************************)
VARIABLES
    routers,      \* routers table: the rows the requests of the run create
    base,         \* per tenant, the ha_vr_id of the HA routers created before
    baseDeleted,  \* whether one of those earlier routers was deleted
    ha_networks,  \* ha_router_networks table: per tenant its rows in table
                  \* order, each the number of subnets of its network
    ha_ports,     \* per router, the number of its HA ports and port bindings
    txn,          \* per API worker, the transaction it has open
    last,         \* the request that ended last, and how
    ha_bindings,  \* ha_router_agent_port_bindings table: per router its rows
    CONF,         \* cfg.CONF: min_ and max_l3_agents_per_router
    state_op,     \* the update_router_state that ended last, and how
    pid_files,    \* per resource, the file at get_pid_file_name()
    procs,        \* the process table: per pid, /proc/<pid>/cmdline
    conf_files,   \* per resource, what keepalived.conf on disk holds
    config,       \* per resource, what the manager's config builds
    pm,           \* per resource, whether the manager's self.pm is set
    uuid_type,    \* per resource, the Python type of the id given for it
    call,         \* the manager call that ended last, and what it did
    frame,        \* the manager call that is under way, step by step
    keepalived_conf,  \* a KeepalivedConf: global_defs, groups, instances
    conf_op,      \* the call on it, its groups or instances that ended last
    manager_notifiers,  \* self.notifiers of a KeepalivedNotifyScriptManager
    disk,         \* the directories and the notify scripts on disk
    notify_op     \* the call on the script manager that ended last

dbVars ==
    <<routers, base, baseDeleted, ha_networks, ha_ports, txn, last,
      ha_bindings, CONF, state_op>>
pmVars ==
    <<pid_files, procs, conf_files, config, pm, uuid_type, call, frame>>

scriptVars == <<manager_notifiers, disk, notify_op>>
confVars == <<keepalived_conf, conf_op, scriptVars>>

vars == <<dbVars, pmVars, confVars>>

(***************************************************************************)
(* neutron/agent/linux/external_process.py: what ProcessManager reads.     *)
(* A text is a sequence of one-character strings; a path and a word of a   *)
(* command line are sequences of fragments, the resource id being one      *)
(* fragment of the paths built from it.                                    *)
(***************************************************************************)
\* pids of the process table
MaxPid == 2
Pids == 1..MaxPid
\* the resources that have a manager; an id is given to the constructor as
\* a str or, when it comes from an RPC message, as a unicode
UUIDs == {"router1"}
UuidTypes == {"str", "unicode"}
UnicodeUUIDs == {uuid \in DOMAIN uuid_type : uuid_type[uuid] = "unicode"}

NoFile == [exists |-> FALSE, readable |-> FALSE, content |-> <<>>]
Unreadable == [exists |-> TRUE, readable |-> FALSE, content |-> <<>>]
File(content) == [exists |-> TRUE, readable |-> TRUE, content |-> content]

DigitChars == <<"0", "1", "2", "3", "4", "5", "6", "7", "8", "9">>
Whitespace == {" ", "\t", "\n"}
IsDigit(c) == \E d \in 1..10 : DigitChars[d] = c
DigitValue(c) == (CHOOSE d \in 1..10 : DigitChars[d] = c) - 1

\* str(n) of n >= 0
RECURSIVE str(_)
str(n) ==
    IF n < 10 THEN <<DigitChars[n + 1]>>
    ELSE Append(str(n \div 10), DigitChars[(n % 10) + 1])

RECURSIVE lstrip(_)
lstrip(s) ==
    IF s # <<>> /\ Head(s) \in Whitespace THEN lstrip(Tail(s)) ELSE s

RECURSIVE rstrip(_)
rstrip(s) ==
    IF s # <<>> /\ s[Len(s)] \in Whitespace
    THEN rstrip(SubSeq(s, 1, Len(s) - 1))
    ELSE s

RECURSIVE DecimalValue(_)
DecimalValue(ds) ==
    IF ds = <<>> THEN 0
    ELSE 10 * DecimalValue(SubSeq(ds, 1, Len(ds) - 1))
         + DigitValue(ds[Len(ds)])

\* a pid, or None
None == [none |-> TRUE, val |-> 0]
Some(n) == [none |-> FALSE, val |-> n]

\* a literal without its sign
Unsigned(t) ==
    IF t # <<>> /\ Head(t) \in {"+", "-"} THEN Tail(t) ELSE t

IsDecimal(ds) == ds # <<>> /\ \A i \in 1..Len(ds) : IsDigit(ds[i])

\* int(t) of a text without blanks around: a sign, then decimal digits.
\* What is no number raises ValueError, which None stands for here since
\* its only caller turns it into None.
int_literal(t) ==
    IF ~IsDecimal(Unsigned(t)) THEN None
    ELSE IF Head(t) = "-" THEN Some(0 - DecimalValue(Unsigned(t)))
    ELSE Some(DecimalValue(Unsigned(t)))

\* int(s)
int(s) == int_literal(rstrip(lstrip(s)))

\* _pid_from_file(file_name): IOError and ValueError give None
_pid_from_file(file) ==
    IF ~file.exists \/ ~file.readable THEN None ELSE int(file.content)

conf_path == "/tmp"

\* {pids_path}/{uuid}.pid or {pids_path}/{uuid}-{sub_name}.pid; the manager
\* passes its conf_path as pids_path
get_pid_file_name(uuid, sub_name) ==
    <<conf_path, "/", uuid>>
    \o (IF sub_name # "" THEN <<"-", sub_name>> ELSE <<>>)
    \o <<".pid">>

\* {conf_path}/{resource_id}/{kind}
_get_conf_file_name(uuid, kind) == <<conf_path, "/", uuid, "/", kind>>

\* the command that spawn's callback builds
callback(uuid, pid_file) ==
    << <<"keepalived">>, <<"-P">>,
       <<"-f">>, _get_conf_file_name(uuid, "keepalived.conf"),
       <<"-p">>, pid_file,
       <<"-r">>, get_pid_file_name(uuid, "vrrp") >>

\* an entry of the process table: the lines of /proc/<pid>/cmdline, whether
\* the first is ASCII, and for a daemon whether it has written its pid file
\* ("starting": not yet) or was told to terminate ("stopping")
NoProc == [alive |-> FALSE, cmdline |-> <<>>, ascii |-> TRUE, phase |-> ""]
Process(cmdline, ascii, phase) ==
    [alive |-> TRUE, cmdline |-> cmdline, ascii |-> ascii, phase |-> phase]
\* the processes of others that may take a free pid: an unrelated one, one
\* with a non-ASCII argument, the daemon of a resource of another agent, and
\* one that names the resource after a newline
OtherProcs ==
    { Process(<< << <<"sleep">>, <<"60">> >> >>, TRUE, "running"),
      Process(<< << <<"grep">>, <<"caf", "\\xe9">> >> >>, FALSE, "running"),
      Process(<< callback("router2", get_pid_file_name("router2", "")) >>,
              TRUE, "running") }
    \cup { Process(<< << <<"sh">>, <<"-c">>, <<"true">> >>,
                      << <<"echo">>, <<u>> >> >>, TRUE, "running")
           : u \in UUIDs }

\* f.readline() of the cmdline file
readline(cmdline) == IF cmdline = <<>> THEN <<>> ELSE Head(cmdline)

\* `uuid in line`, for a line that the test could be made on: the uuid,
\* which holds no character that parts fragments, stands somewhere in one
\* of them
contains(line, uuid) ==
    \E i \in 1..Len(line) : \E j \in 1..Len(line[i]) :
        \E at \in 1..(Len(line[i][j]) - Len(uuid) + 1) :
            SubSeq(line[i][j], at, at + Len(uuid) - 1) = uuid

\* the pid property
pid(files, uuid) == _pid_from_file(files[uuid])

\* active, p being what self.pid gave: "True", "False", or the exception
\* that leaves it. `self.uuid in f.readline()` with a unicode uuid decodes
\* the line, a str, as ASCII.
active_of(p, table, uuid) ==
    IF p.none THEN "False"
    ELSE IF p.val \notin Pids \/ ~table[p.val].alive THEN "False"
    ELSE IF ~table[p.val].ascii /\ uuid \in UnicodeUUIDs
    THEN "UnicodeDecodeError"
    ELSE IF contains(readline(table[p.val].cmdline), uuid)
    THEN "True" ELSE "False"

\* the active property
active(files, table, uuid) == active_of(pid(files, uuid), table, uuid)

(***************************************************************************)
(* neutron/agent/linux/keepalived.py: the configuration objects.           *)
(* None is NoneStr where a str may stand and NoneInt where an int may. A   *)
(* list is the sequence of its items. A dict or a set is the sequence of   *)
(* its entries in the order iteration meets them: an entry keeps its place *)
(* while it is there, and a new key takes the place its hash gives it,     *)
(* which may be any.                                                       *)
(***************************************************************************)
VALID_STATES == {"MASTER", "BACKUP"}
VALID_NOTIFY_STATES == {"master", "backup", "fault"}
VALID_AUTH_TYPES == {"AH", "PASS"}

NoneStr == "None"
NoneInt == -1

\* bool(s) of a str or None, bool(n) of an int or None
truth_str(s) == s # NoneStr /\ s # ""
\* bool(n) that takes None and 0 for true
truth_int_any(n) == n = n
truth_int(n) == n # NoneInt /\ n # 0

\* '%s' % n of an int or None
format_int(n) == IF n = NoneInt THEN "None" ELSE ToString(n)

\* list[:i-1] + list[i:], the list without its i-th item
without(list, i) == SubSeq(list, 1, i - 1) \o SubSeq(list, i + 1, Len(list))

\* list[:at-1] + [item] + list[at-1:], item put at the place at
insert(list, at, item) ==
    SubSeq(list, 1, at - 1) \o <<item>> \o SubSeq(list, at, Len(list))

\* the place of the entry of a dict whose key, held in field, is key;
\* 0 when it has none
place(entries, field, key) ==
    IF \E i \in 1..Len(entries) : entries[i][field] = key
    THEN CHOOSE i \in 1..Len(entries) : entries[i][field] = key
    ELSE 0

setitem_at(entries, i, entry, at) ==
    IF i # 0 THEN [entries EXCEPT ![i] = entry] ELSE insert(entries, at, entry)

\* a d[key] = entry that never takes the place of the entry of the key
setitem_beside(entries, field, entry, at) == insert(entries, at, entry)

\* d[key] = entry
setitem(entries, field, entry, at) ==
    setitem_at(entries, place(entries, field, entry[field]), entry, at)

\* d.pop(key, None)
pop(entries, field, key) == SelectSeq(entries, LAMBDA e : e[field] # key)

get_at(entries, i) == IF i = 0 THEN <<>> ELSE <<entries[i]>>

\* d.get(key): the object in a list of one, or None as the empty list
get(entries, field, key) == get_at(entries, place(entries, field, key))

\* s.add(member) and s.discard(member) of a set
set_add(members, member, at) ==
    IF \E i \in 1..Len(members) : members[i] = member THEN members
    ELSE insert(members, at, member)

set_discard(members, member) == SelectSeq(members, LAMBDA m : m # member)

KeepalivedVipAddress(ip_address, interface_name) ==
    [class |-> "KeepalivedVipAddress", ip_address |-> ip_address,
     interface_name |-> interface_name]

\* build_config that names the interface whether there is one or not
KeepalivedVipAddress_build_config_dev(vip) ==
    vip.ip_address \o " dev " \o vip.interface_name

KeepalivedVipAddress_build_config(vip) ==
    IF truth_str(vip.interface_name)
    THEN vip.ip_address \o " dev " \o vip.interface_name
    ELSE vip.ip_address

KeepalivedVipAddress_eq(vip, other) == vip.ip_address = other.ip_address

KeepalivedVirtualRoute(destination, nexthop, interface_name) ==
    [class |-> "KeepalivedVirtualRoute", destination |-> destination,
     nexthop |-> nexthop, interface_name |-> interface_name]

KeepalivedVirtualRoute_build_config(route) ==
    route.destination \o " via " \o route.nexthop \o " dev "
        \o route.interface_name

KeepalivedVirtualRoute_eq(route, other) ==
    /\ route.destination = other.destination
    /\ route.nexthop = other.nexthop

\* item == x, the __eq__ of the class of item
eq(item, x) ==
    IF item.class = "KeepalivedVipAddress"
    THEN KeepalivedVipAddress_eq(item, x)
    ELSE KeepalivedVirtualRoute_eq(item, x)

\* list.index(x): the first place whose item equals x
index(list, x) ==
    CHOOSE i \in 1..Len(list) :
        eq(list[i], x) /\ \A j \in 1..(i - 1) : ~eq(list[j], x)

\* list.remove(x)
list_remove(list, x) == without(list, index(list, x))

\* `for x in list: if value == x.<field>: list.remove(x)`, the iterator
\* being at the i-th item: it moves on by one place whatever the body did
RECURSIVE for_remove(_, _, _, _)
for_remove(list, i, field, value) ==
    IF i > Len(list) THEN list
    ELSE IF value = list[i][field]
         THEN for_remove(list_remove(list, list[i]), i + 1, field, value)
         ELSE for_remove(list, i + 1, field, value)

KeepalivedGlobaldefs ==
    [notification_emails |-> <<>>, notification_email_from |-> NoneStr,
     smtp_server |-> NoneStr, smtp_connect_timeout |-> NoneInt]

\* ('\t\t' + i for i in names)
indented(names) == [i \in 1..Len(names) |-> "\t\t" \o names[i]]

KeepalivedGlobaldefs_build_config(global_defs) ==
    <<"global_defs {">>
    \o (IF global_defs.notification_emails # <<>>
        THEN <<"\tnotification_email {">>
             \o indented(global_defs.notification_emails) \o <<"\t}">>
        ELSE <<>>)
    \o (IF truth_str(global_defs.notification_email_from)
        THEN <<"\tnotification_email_from "
                 \o global_defs.notification_email_from>>
        ELSE <<>>)
    \o (IF truth_str(global_defs.smtp_server)
        THEN <<"\tsmtp_server " \o global_defs.smtp_server,
               "\tsmtp_connect_timeout "
                 \o format_int(global_defs.smtp_connect_timeout)>>
        ELSE <<>>)
    \o <<"}">>

KeepalivedGroup(name) ==
    [name |-> name, instance_names |-> <<>>, notifiers |-> <<>>]

KeepalivedGroup_add_instance(group, instance, at) ==
    [group EXCEPT !.instance_names = set_add(@, instance.name, at)]

remove_instance(group, instance) ==
    [group EXCEPT !.instance_names = set_discard(@, instance.name)]

\* what a call on an object gives: the exception it raised ("" for none)
\* and the object after it, or the new object in a list of one
Raised(exc, obj) == [exc |-> exc, obj |-> obj]
Returned(obj) == [exc |-> "", obj |-> obj]

set_notify(group, state, path, at) ==
    IF state \notin VALID_NOTIFY_STATES
    THEN Raised("InvalidNotifyStateException", group)
    ELSE Returned([group EXCEPT !.notifiers =
                      setitem(@, "state",
                              [state |-> state, path |-> path], at)])

\* ('\tnotify_' + state + ' "' + path + '"' for state, path in items)
notify_lines(notifiers) ==
    [i \in 1..Len(notifiers) |->
        "\tnotify_" \o notifiers[i].state \o " \"" \o notifiers[i].path
            \o "\""]

KeepalivedGroup_build_config(group) ==
    <<"vrrp_sync_group " \o group.name \o " {", "\tgroup {">>
    \o indented(group.instance_names)
    \o <<"\t}">>
    \o notify_lines(group.notifiers)
    \o <<"}">>

KeepalivedInstance(name, state, interface, vrouter_id, priority, advert_int, mcast_src_ip, nopreempt, garp_master_delay) ==
    IF state \notin VALID_STATES
    THEN Raised("InvalidInstanceStateException", <<>>)
    ELSE Returned(<<[name |-> name, state |-> state, interface |-> interface,
                     vrouter_id |-> vrouter_id, priority |-> priority,
                     nopreempt |-> nopreempt, advert_int |-> advert_int,
                     mcast_src_ip |-> mcast_src_ip,
                     track_interfaces |-> <<>>, vip_addresses |-> <<>>,
                     vip_addresses_excluded |-> <<>>,
                     virtual_routes |-> <<>>, authentication |-> <<>>,
                     garp_master_delay |-> garp_master_delay]>>)

\* set_authentication assigning before it checks
set_authentication_late(instance, type, password) ==
    IF type \notin VALID_AUTH_TYPES
    THEN Raised("InvalidAuthenticationTypeExecption",
                [instance EXCEPT !.authentication = <<type, password>>])
    ELSE Returned([instance EXCEPT !.authentication = <<type, password>>])

set_authentication(instance, type, password) ==
    IF type \notin VALID_AUTH_TYPES
    THEN Raised("InvalidAuthenticationTypeExecption", instance)
    ELSE Returned([instance EXCEPT !.authentication = <<type, password>>])

remove_vips_vroutes_by_interface(instance, interface_name) ==
    [instance EXCEPT
        !.vip_addresses =
            for_remove(@, 1, "interface_name", interface_name),
        !.vip_addresses_excluded =
            for_remove(@, 1, "interface_name", interface_name),
        !.virtual_routes =
            for_remove(@, 1, "interface_name", interface_name)]

remove_vip_by_ip_address(instance, ip_address) ==
    [instance EXCEPT
        !.vip_addresses = for_remove(@, 1, "ip_address", ip_address),
        !.vip_addresses_excluded =
            for_remove(@, 1, "ip_address", ip_address)]

_build_track_interface_config(instance) ==
    <<"\ttrack_interface {">> \o indented(instance.track_interfaces)
        \o <<"\t}">>

\* ('\t\t' + item.build_config() for item in list)
built(list) ==
    [i \in 1..Len(list) |->
        "\t\t" \o (IF list[i].class = "KeepalivedVipAddress"
                   THEN KeepalivedVipAddress_build_config(list[i])
                   ELSE KeepalivedVirtualRoute_build_config(list[i]))]

_build_vip_addresses_config(instance) ==
    <<"\tvirtual_ipaddress {">> \o built(instance.vip_addresses)
        \o <<"\t}">>

_build_vip_addresses_excluded_config(instance) ==
    <<"\tvirtual_ipaddress_excluded {">>
        \o built(instance.vip_addresses_excluded) \o <<"\t}">>

_build_virutal_routes_config(instance) ==
    <<"\tvirtual_routes {">> \o built(instance.virtual_routes) \o <<"\t}">>

KeepalivedInstance_build_config(instance) ==
    <<"vrrp_instance " \o instance.name \o " {",
      "\tstate " \o instance.state,
      "\tinterface " \o instance.interface,
      "\tvirtual_router_id " \o format_int(instance.vrouter_id),
      "\tpriority " \o format_int(instance.priority)>>
    \o (IF instance.nopreempt THEN <<"\tnopreempt">> ELSE <<>>)
    \o (IF truth_int(instance.garp_master_delay)
        THEN <<"\tgarp_master_delay "
                 \o format_int(instance.garp_master_delay)>>
        ELSE <<>>)
    \o (IF truth_int(instance.advert_int)
        THEN <<"\tadvert_int " \o format_int(instance.advert_int)>>
        ELSE <<>>)
    \o (IF instance.authentication # <<>>
        THEN <<"\tauthentication {",
               "\t\tauth_type " \o instance.authentication[1],
               "\t\tauth_pass " \o instance.authentication[2],
               "\t}">>
        ELSE <<>>)
    \o (IF truth_str(instance.mcast_src_ip)
        THEN <<"\tmcast_src_ip " \o instance.mcast_src_ip>>
        ELSE <<>>)
    \o (IF instance.track_interfaces # <<>>
        THEN _build_track_interface_config(instance) ELSE <<>>)
    \o (IF instance.vip_addresses # <<>>
        THEN _build_vip_addresses_config(instance) ELSE <<>>)
    \o (IF instance.vip_addresses_excluded # <<>>
        THEN _build_vip_addresses_excluded_config(instance) ELSE <<>>)
    \o (IF instance.virtual_routes # <<>>
        THEN _build_virutal_routes_config(instance) ELSE <<>>)
    \o <<"}">>

\* reset that leaves the groups
reset_global_defs(conf) ==
    [global_defs |-> <<>>, groups |-> conf.groups, instances |-> <<>>]

\* KeepalivedConf(): __init__ calls reset()
reset(conf) == [global_defs |-> <<>>, groups |-> <<>>, instances |-> <<>>]

KeepalivedConf ==
    reset([global_defs |-> <<>>, groups |-> <<>>, instances |-> <<>>])

set_global_defs(conf, global_defs) ==
    [conf EXCEPT !.global_defs = <<global_defs>>]

add_group(conf, group, at) ==
    [conf EXCEPT !.groups = setitem(@, "name", group, at)]

del_group(conf, group) ==
    [conf EXCEPT !.groups = pop(@, "name", group.name)]

get_group(conf, name) == get(conf.groups, "name", name)

add_instance(conf, instance, at) ==
    [conf EXCEPT !.instances = setitem(@, "name", instance, at)]

del_instance(conf, instance) ==
    [conf EXCEPT !.instances = pop(@, "name", instance.name)]

get_instance(conf, name) == get(conf.instances, "name", name)

\* for group in self.groups.values(): config.extend(group.build_config())
RECURSIVE extend_groups(_)
extend_groups(groups) ==
    IF groups = <<>> THEN <<>>
    ELSE KeepalivedGroup_build_config(Head(groups))
             \o extend_groups(Tail(groups))

\* for instance in self.instances.values(): config.extend(...)
RECURSIVE extend_instances(_)
extend_instances(instances) ==
    IF instances = <<>> THEN <<>>
    ELSE KeepalivedInstance_build_config(Head(instances))
             \o extend_instances(Tail(instances))

\* no call was made on the configuration yet
NoConfOp ==
    [op |-> "", name |-> "", arg |-> "", exc |-> "", made |-> 0,
     lines |-> <<>>, items |-> 0, after |-> ""]

\* build_config that takes the instances out as it writes them
build_config_draining(conf) ==
    [conf |-> [conf EXCEPT !.instances = <<>>],
     lines |-> (IF conf.global_defs # <<>>
                THEN KeepalivedGlobaldefs_build_config(conf.global_defs[1])
                ELSE <<>>)
               \o extend_groups(conf.groups)
               \o extend_instances(conf.instances)]

\* build_config that writes the instances before the groups
build_config_instances_first(conf) ==
    [conf |-> conf,
     lines |-> (IF conf.global_defs # <<>>
                THEN KeepalivedGlobaldefs_build_config(conf.global_defs[1])
                ELSE <<>>)
               \o extend_instances(conf.instances)
               \o extend_groups(conf.groups)]

\* KeepalivedConf.build_config: the lines it returns, and the
\* configuration after it, which it assigns nothing of
build_config(conf) ==
    [conf |-> conf,
     lines |-> (IF conf.global_defs # <<>>
                THEN KeepalivedGlobaldefs_build_config(conf.global_defs[1])
                ELSE <<>>)
               \o extend_groups(conf.groups)
               \o extend_instances(conf.instances)]

(***************************************************************************)
(* neutron/agent/linux/keepalived.py: KeepalivedNotifyScriptManager, of the *)
(* resource router1 with conf_path /tmp. self.notifiers is a function of    *)
(* its keys. A file on disk is its content, a str, and the permission bits  *)
(* of its mode.                                                             *)
(***************************************************************************)
resource_id == "router1"

\* '\n'.join(lines)
RECURSIVE join(_)
join(lines) ==
    IF lines = <<>> THEN ""
    ELSE IF Len(lines) = 1 THEN lines[1]
    ELSE lines[1] \o "\n" \o join(Tail(lines))

\* reset_notifiers(state): state is NoneStr when the argument is left out
reset_notifiers(buckets, state) ==
    IF truth_str(state)
    THEN [key \in DOMAIN buckets \cup {state} |->
              IF key = state THEN <<>> ELSE buckets[key]]
    ELSE [key \in {"master", "backup", "fault"} |-> <<>>]

\* self.notifiers when __init__ returns
KeepalivedNotifyScriptManager == reset_notifiers(<<>>, NoneStr)

\* add_notify that adds the command at the head of the bucket
add_notify_first(buckets, state, cmd) ==
    IF state \notin VALID_NOTIFY_STATES
    THEN Raised("InvalidNotifyStateException", buckets)
    ELSE Returned([buckets EXCEPT ![state] = <<cmd>> \o @])

add_notify(buckets, state, cmd) ==
    IF state \notin VALID_NOTIFY_STATES
    THEN Raised("InvalidNotifyStateException", buckets)
    ELSE Returned([buckets EXCEPT ![state] = Append(@, cmd)])

\* no directory but conf_path and no file
EmptyDisk == [dirs |-> {<<conf_path>>}, files |-> <<>>]

\* utils.replace_file(name, data): the file holds data and nothing else, with
\* the mode 0644
replace_file(d, name, data) ==
    [d EXCEPT !.files =
        (name :> [content |-> data,
                  mode |-> {"S_IRUSR", "S_IWUSR", "S_IRGRP", "S_IROTH"}])
        @@ @]

\* os.chmod(name, os.stat(name).st_mode | stat.S_IEXEC)
chmod_exec(d, name) ==
    [d EXCEPT !.files[name].mode = @ \cup {"S_IEXEC"}]

\* os.makedirs(conf_dir, 0o755) of _get_conf_file_name, where conf_dir is
\* not a directory
ensure_conf_dir(d) ==
    [d EXCEPT !.dirs = @ \cup {<<conf_path, "/", resource_id>>}]

\* what a call has done so far: the disk, the value each
\* _build_notify_script returned (a list of one path, or none for None),
\* and the calls of utils.replace_file and of os.chmod it made
Run(d) == [disk |-> d, returned |-> <<>>, written |-> <<>>, chmods |-> <<>>]

\* _build_notify_script that does not return where the bucket is empty
_build_notify_script_empty(buckets, w, state) ==
    [disk |-> chmod_exec(
                  replace_file(ensure_conf_dir(w.disk),
                      _get_conf_file_name(resource_id,
                                          "notify_" \o state \o ".sh"),
                      "#!/usr/bin/env bash\n" \o join(buckets[state])),
                  _get_conf_file_name(resource_id,
                                      "notify_" \o state \o ".sh")),
     returned |-> Append(w.returned,
                     <<_get_conf_file_name(resource_id,
                                           "notify_" \o state \o ".sh")>>),
     written |-> Append(w.written,
                    [name |-> _get_conf_file_name(resource_id,
                                  "notify_" \o state \o ".sh"),
                     data |-> "#!/usr/bin/env bash\n"
                                  \o join(buckets[state])]),
     chmods |-> Append(w.chmods,
                   _get_conf_file_name(resource_id,
                                       "notify_" \o state \o ".sh"))]

_build_notify_script(buckets, w, state) ==
    IF buckets[state] = <<>> THEN [w EXCEPT !.returned = Append(@, <<>>)]
    ELSE _build_notify_script_empty(buckets, w, state)

\* get_notifiers_path(): master, backup, fault
get_notifiers_path(buckets, d) ==
    _build_notify_script(buckets,
        _build_notify_script(buckets,
            _build_notify_script(buckets, Run(d), "master"),
            "backup"),
        "fault")

\* no call was made on the script manager yet
NoNotifyOp ==
    [op |-> "", state |-> "", cmd |-> "", exc |-> "", returned |-> <<>>,
     written |-> <<>>, chmods |-> <<>>]

InitScripts ==
    /\ manager_notifiers = KeepalivedNotifyScriptManager
    /\ disk = EmptyDisk
    /\ notify_op = NoNotifyOp

(***************************************************************************)
(* The calls of ProcessManager and KeepalivedManager, as functions of the  *)
(* world w they run in: the files, the process table, the manager's pm,    *)
(* what the call did so far (events) and the exception that ended it.      *)
(***************************************************************************)
ConfVersions == {1, 2}
\* no keepalived.conf on disk
NoConf == 0

\* no call ended since the last step of the host
NoCall ==
    [op |-> "", uuid |-> "", kill |-> FALSE, pm |-> FALSE, active |-> "",
     pid |-> None, config |-> NoConf, events |-> <<>>, exc |-> ""]

\* no call is under way. pc is the place of the call in its code, pid and
\* active what _kill read, manager_active what KeepalivedManager.restart
\* read, hit the process that the signal of the call reached, exited whether
\* a process ended while the call was under way
NoFrame ==
    [pc |-> "idle", op |-> "", uuid |-> "", signal |-> "", pid |-> None,
     active |-> "", manager_active |-> "", events |-> <<>>, exc |-> "",
     hit |-> NoProc, exited |-> FALSE]

\* what the pid file of a resource may be found to be: missing, unreadable,
\* empty, not a number, no pid, or the pid that an earlier daemon wrote
StalePidFiles ==
    {NoFile, Unreadable, File(<<>>), File(<<"x">>), File(<<"-", "1">>)}
    \cup {File(str(p) \o <<"\n">>) : p \in Pids}

\* an event, with what keepalived.conf holds when it happens
Log(w, uuid, ev, sig, p, cmd) ==
    [w EXCEPT !.events = Append(@, [ev |-> ev, sig |-> sig, pid |-> p,
                                    cmd |-> cmd, data |-> "",
                                    conf |-> w.conf_files[uuid]])]
Raise(w, exc) == [w EXCEPT !.exc = exc]

\* what a signal does to process p: 9 ends it, 15 asks it to end, HUP makes
\* it load its configuration again; a pid that no process has makes the
\* kill command fail
deliver(w, signal, p) ==
    IF p \notin Pids \/ ~w.procs[p].alive THEN Raise(w, "RuntimeError")
    ELSE IF signal = "9" THEN [w EXCEPT !.procs[p] = NoProc]
    ELSE IF signal = "15" THEN [w EXCEPT !.procs[p].phase = "stopping"]
    ELSE w

\* the command that was executed failed: utils.execute() raises
failed(w, uuid, p) == Raise(Log(w, uuid, "failed", "", p, <<>>), "RuntimeError")

\* a kill command whose failure is logged and raises nothing
kill_quiet(w, uuid, signal, p) ==
    IF w.fails THEN Log(Log(w, uuid, "kill", signal, p, <<>>),
                        uuid, "failed", "", p, <<>>)
    ELSE deliver(Log(w, uuid, "kill", signal, p, <<>>), signal, p)

\* utils.execute(['kill', '-' + signal, pid], root_helper); in a world
\* that fails the command the signal is not delivered
kill(w, uuid, signal, p) ==
    IF w.fails THEN failed(Log(w, uuid, "kill", signal, p, <<>>), uuid, p)
    ELSE deliver(Log(w, uuid, "kill", signal, p, <<>>), signal, p)

\* ip_wrapper.netns.execute(cmd): the daemon starts, as process newpid; in a
\* world that fails the command no process starts
execute(w, uuid, cmd, newpid) ==
    IF w.fails
    THEN failed(Log(w, uuid, "execute", "", newpid, cmd), uuid, newpid)
    ELSE [Log(w, uuid, "execute", "", newpid, cmd)
             EXCEPT !.procs[newpid] = Process(<<cmd>>, TRUE, "starting")]

\* cmd_callback(pid_file), then the execution of what it returns
enable_cmd(w, uuid, pid_file, newpid) ==
    execute(Log(w, uuid, "callback", "", 0, <<pid_file>>),
            uuid, callback(uuid, pid_file), newpid)

\* enable, a being what self.active gave, that starts the daemon all the same
enable_if_always(w, uuid, newpid, a) ==
    IF a \notin {"True", "False"} THEN Raise(w, a)
    ELSE enable_cmd(w, uuid, get_pid_file_name(uuid, ""), newpid)

\* enable, a being what self.active gave
enable_if(w, uuid, newpid, a) ==
    IF a \notin {"True", "False"} THEN Raise(w, a)
    ELSE IF a = "False"
    THEN enable_cmd(w, uuid, get_pid_file_name(uuid, ""), newpid)
    ELSE w

\* ProcessManager.enable(cmd_callback), cmd_callback being spawn's
enable(w, uuid, newpid) ==
    enable_if(w, uuid, newpid, active(w.pid_files, w.procs, uuid))

\* _kill that signals whatever pid the file holds
_kill_if_pid(w, uuid, signal, p, a) ==
    IF a \notin {"True", "False"} THEN Raise(w, a)
    ELSE IF ~p.none THEN kill(w, uuid, signal, p.val)
    ELSE w

\* _kill, p being what self.pid gave and a what self.active gave after it
_kill_if(w, uuid, signal, p, a) ==
    IF a \notin {"True", "False"} THEN Raise(w, a)
    ELSE IF a = "True" THEN kill(w, uuid, signal, p.val)
    ELSE w

\* ProcessManager._kill(signal)
_kill(w, uuid, signal) ==
    _kill_if(w, uuid, signal, pid(w.pid_files, uuid),
             active(w.pid_files, w.procs, uuid))

\* ProcessManager.restart()
restart(w, uuid) == _kill(w, uuid, "HUP")

\* the end of disable: the pid file is removed if there is one
unlink(w, uuid) ==
    IF w.exc # "" THEN w
    ELSE IF w.pid_files[uuid].exists
    THEN Log([w EXCEPT !.pid_files[uuid] = NoFile], uuid, "unlink", "", 0,
             <<get_pid_file_name(uuid, "")>>)
    ELSE w

\* disable with the two signals swapped
disable_swapped(w, uuid, kill9) ==
    unlink(_kill(w, uuid, IF kill9 THEN "15" ELSE "9"), uuid)

\* ProcessManager.disable(kill)
disable(w, uuid, kill9) ==
    unlink(_kill(w, uuid, IF kill9 THEN "9" ELSE "15"), uuid)

\* self.config of the manager: the configuration of a router that has no
\* address yet, and what the agent makes of it when it adds an address
ManagerConfig(version) ==
    add_instance(
        KeepalivedConf,
        [KeepalivedInstance("VR_1", "MASTER", "eth0", 1, 50, NoneInt,
                            NoneStr, FALSE, NoneInt).obj[1]
         EXCEPT !.vip_addresses =
             IF version = 1 THEN <<>>
             ELSE <<KeepalivedVipAddress("192.168.1.0/24", "eth1")>>],
        1)

\* '\n'.join(self.config.build_config()), for each self.config
config_strs ==
    [version \in ConfVersions |->
        join(build_config(ManagerConfig(version)).lines)]
config_str(version) == config_strs[version]

\* utils.replace_file(config_path, config_str), seen by the event it leaves:
\* conf_files holds the version of the configuration whose text was written
write(w, uuid, config_path, data) ==
    [w EXCEPT !.conf_files[uuid] = w.config[uuid],
              !.events = Append(@, [ev |-> "write", sig |-> "", pid |-> 0,
                                    cmd |-> <<config_path>>, data |-> data,
                                    conf |-> w.conf_files[uuid]])]

\* _output_config_file that writes the first line of build_config() only
_output_config_file_first(w, uuid) ==
    write(w, uuid, _get_conf_file_name(uuid, "keepalived.conf"),
          build_config(ManagerConfig(w.config[uuid])).lines[1])

\* KeepalivedManager._output_config_file()
_output_config_file(w, uuid) ==
    write(w, uuid, _get_conf_file_name(uuid, "keepalived.conf"),
          config_str(w.config[uuid]))

\* KeepalivedManager.spawn(); an exception of an earlier step of the call
\* ends the call
spawn(w, uuid, newpid) ==
    IF w.exc # "" THEN w
    ELSE enable([_output_config_file(w, uuid) EXCEPT !.pm[uuid] = TRUE],
                uuid, newpid)

\* restart that sends HUP and then writes the configuration
restart_if_late(w, uuid, newpid, a) ==
    IF a \notin {"True", "False"} THEN Raise(w, a)
    ELSE IF a = "True" THEN _output_config_file(restart(w, uuid), uuid)
    ELSE spawn(disable(w, uuid, TRUE), uuid, newpid)

\* restart, a being what self.pm.active gave
restart_if(w, uuid, newpid, a) ==
    IF a \notin {"True", "False"} THEN Raise(w, a)
    ELSE IF a = "True" THEN restart(_output_config_file(w, uuid), uuid)
    ELSE spawn(disable(w, uuid, TRUE), uuid, newpid)

\* KeepalivedManager.restart(); self.pm is None before the first spawn
KeepalivedManager_restart(w, uuid, newpid) ==
    IF ~w.pm[uuid] THEN Raise(w, "AttributeError")
    ELSE restart_if(w, uuid, newpid, active(w.pid_files, w.procs, uuid))

\* KeepalivedManager.spawn_or_restart()
spawn_or_restart(w, uuid, newpid) ==
    IF w.pm[uuid]
    THEN KeepalivedManager_restart(w, uuid, newpid)
    ELSE spawn(w, uuid, newpid)

\* KeepalivedManager.disable()
KeepalivedManager_disable(w, uuid) ==
    IF w.pm[uuid] THEN disable(w, uuid, FALSE) ELSE w

(***************************************************************************)
(* neutron/db/l3_hamode_db.py                                              *)
(***************************************************************************)
Tenants == {"t1", "t2"}
RouterIds == 1..MaxRouters
Workers == {"w1", "w2"}
\* request bodies: the 'ha' attribute of a POST
HaAttrs == {"True", "False", "ATTR_NOT_SPECIFIED"}
\* the l3 agents a request may find registered
L3Agents == {1, 2}
\* HA routers the first tenant may hold when the run starts, created one
\* after the other, and the earlier routers a run may delete
BaseSizes == {0, 253}
DeletableBase == {1, 7}

\* a NULL ha_vr_id column (None)
NULL == 0
VR_ID_MAX == 254
\* VR_ID_RANGE = set(range(1, 255))
VR_ID_RANGE == set_from_range(EmptyPySet, 1, VR_ID_MAX)
VR_ID_RANGE_entries == set_next(VR_ID_RANGE, 0, VR_ID_RANGE.mask)
VR_ID_RANGE_copy == set_copy(VR_ID_RANGE)

\* cfg defaults
min_l3_agents_per_router == 2
max_l3_agents_per_router == 2
\* L3_HA_OPTS: cfg.CONF as the options are registered
L3_HA_OPTS ==
    [min_l3_agents_per_router |-> min_l3_agents_per_router,
     max_l3_agents_per_router |-> max_l3_agents_per_router]

\* an HA port binding without an agent (l3_agent_id is NULL)
NoAgent == ""
\* L3HARouterAgentPortBinding(port_id, router_id): no agent, and the state
\* that the column defaults to
L3HARouterAgentPortBinding == [agent |-> NoAgent, state |-> "slave"]
\* the bindings of the ports that _create_ha_interfaces creates, one per
\* agent
port_bindings(num_agents) ==
    [port \in 1..num_agents |-> L3HARouterAgentPortBinding]

\* no update_router_state was served yet
NoStateOp ==
    [router_id |-> 0, state |-> "", host |-> "", exc |-> "", matched |-> 0]
\* sa.Enum('master', 'slave', name='l3_ha_states')
l3_ha_states == {"master", "slave"}
\* what a table holds for a value that its Enum column does not list, where
\* the database takes such a value
NotInEnum == ""
\* no host given (host=None)
NoHost == ""

\* get_ha_router_port_binding(context, [router_id], host=host): the places
\* of the rows of the router and, `if host:`, of those joined to an agent of
\* that host
get_ha_router_port_binding(rows, router_id, host) ==
    IF router_id \notin DOMAIN rows THEN {}
    ELSE {port \in DOMAIN rows[router_id] :
             host # NoHost => rows[router_id][port].agent = host}

\* binding.update({'state': state}) for every binding of the query, as the
\* table holds it once the block has ended: stored says what the column
\* makes of the state
update_bindings(rows, router_id, bindings, stored) ==
    IF bindings = {} THEN rows
    ELSE [rows EXCEPT ![router_id] =
             [port \in DOMAIN @ |->
                 IF port \in bindings
                 THEN [@[port] EXCEPT !.state = stored]
                 ELSE @[port]]]

NoRow == [exists |-> FALSE, tenant |-> "", ha |-> FALSE, ha_vr_id |-> NULL]
Row(t, ha, vr_id) ==
    [exists |-> TRUE, tenant |-> t, ha |-> ha, ha_vr_id |-> vr_id]

\* an open transaction: the row it will write at commit, and whether it
\* holds a new HA network
NoTxn == [pc |-> "idle", op |-> "", router |-> 0, tenant |-> "",
          ha |-> FALSE, vr_id |-> NULL, ports |-> 0, add_ha |-> 0,
          notify |-> "", network |-> FALSE]
Pending(op, r, t, ha, vr_id, ports, add_ha, notify, network) ==
    [pc |-> "commit", op |-> op, router |-> r, tenant |-> t, ha |-> ha,
     vr_id |-> vr_id, ports |-> ports, add_ha |-> add_ha, notify |-> notify,
     network |-> network]

\* the notification cast twice
_notify_ha_interfaces_updated_twice(casts, router_id, command) ==
    casts \o <<[routers |-> <<router_id>>, command |-> command],
               [routers |-> <<router_id>>, command |-> command]>>

\* _notify_ha_interfaces_updated(context, router_id, command):
\* l3_rpc_notifier.routers_updated(context, [router_id], command), added to
\* the casts of the request
_notify_ha_interfaces_updated(casts, router_id, command) ==
    casts \o <<[routers |-> <<router_id>>, command |-> command]>>

\* how a request ended: the l3 agents it found if it went through _add_ha (0
\* if it did not), the exception it raised ("" for none), the command it
\* left its `with` block with ("" for none) and, `if notify_command:`, the
\* routers_updated casts it made after the block
Ended(op, r, t, add_ha, exc, notify) ==
    [op |-> op, router |-> r, tenant |-> t, add_ha |-> add_ha, exc |-> exc,
     notify |-> notify,
     casts |-> IF notify # ""
               THEN _notify_ha_interfaces_updated(<<>>, r, notify)
               ELSE <<>>]

\* _is_ha_router(router) for a request body whose 'ha' is True, False or
\* ATTR_NOT_SPECIFIED, with cfg.CONF.l3_ha at its default (False)
conf_l3_ha == FALSE
_is_ha_router(ha) ==
    IF ha = "ATTR_NOT_SPECIFIED" THEN conf_l3_ha ELSE ha = "True"

\* the rows of tenant t
TenantRouters(rows, t) ==
    {r \in RouterIds : rows[r].exists /\ rows[r].tenant = t}

\* the query without its tenant filter
allocated_vr_ids_all_tenants(rows, earlier, t, own) ==
    {rows[r].ha_vr_id : r \in {x \in RouterIds : rows[x].exists}}
        \cup UNION {earlier[u] : u \in Tenants} \cup own

\* the query filtered on the id of the router instead
allocated_vr_ids_of_router(rows, earlier, t, own) ==
    own

\* a pool that remembers the identifiers of the routers deleted since
allocated_vr_ids_remembered(rows, earlier, t, own) ==
    {rows[r].ha_vr_id : r \in TenantRouters(rows, t)} \cup earlier[t]
        \cup own \cup {v \in 1..VR_ID_MAX - 1 : earlier[t] # {}}

\* set([r['ha_vr_id'] for r in query]), query being the rows of the tenant
\* that the session sees: the committed ones and its own
allocated_vr_ids(rows, earlier, t, own) ==
    {rows[r].ha_vr_id : r \in TenantRouters(rows, t)} \cup earlier[t] \cup own

\* without the test for an empty set
_set_vr_id_unchecked(allocated) ==
    LET available_vr_ids ==
            set_difference(VR_ID_RANGE, VR_ID_RANGE_entries, VR_ID_RANGE_copy,
                           allocated)
    IN  IF available_vr_ids.used = 0
        THEN [exc |-> "", vr_id |-> VR_ID_MAX]
        ELSE [exc |-> "", vr_id |-> set_pop(available_vr_ids)]

_set_vr_id(allocated) ==
    LET available_vr_ids ==
            set_difference(VR_ID_RANGE, VR_ID_RANGE_entries, VR_ID_RANGE_copy,
                           allocated)
    IN  IF available_vr_ids.used = 0
        THEN [exc |-> "NoVRIDAvailable", vr_id |-> NULL]
        ELSE [exc |-> "", vr_id |-> set_pop(available_vr_ids)]

\* without the cap of max_l3_agents_per_router
_get_number_of_agents_uncapped(l3_agents) ==
    IF CONF.min_l3_agents_per_router < 2
    THEN [exc |-> "HAMinimumAgentsNumberNotValid", num |-> 0]
    ELSE IF l3_agents < CONF.min_l3_agents_per_router
    THEN [exc |-> "HANotEnoughAvailableAgents", num |-> 0]
    ELSE [exc |-> "", num |-> l3_agents]

\* _get_number_of_agents(context), l3_agents being len(get_l3_agents())
_get_number_of_agents(l3_agents) ==
    IF CONF.min_l3_agents_per_router < 2
    THEN [exc |-> "HAMinimumAgentsNumberNotValid", num |-> 0]
    ELSE LET num_agents ==
                 IF CONF.max_l3_agents_per_router # 0
                    /\ ~(CONF.max_l3_agents_per_router > l3_agents)
                 THEN CONF.max_l3_agents_per_router ELSE l3_agents
         IN  IF num_agents < CONF.min_l3_agents_per_router
             THEN [exc |-> "HANotEnoughAvailableAgents", num |-> 0]
             ELSE [exc |-> "", num |-> num_agents]

\* no row of ha_router_networks
NoNetwork == 0

\* a query that finds no row
get_ha_network_none(networks, tenant_id) == NoNetwork

\* get_ha_network(context, tenant_id): the place of the first row of the
\* tenant, NoNetwork (None) without one
get_ha_network(networks, tenant_id) ==
    IF networks[tenant_id] = <<>> THEN NoNetwork ELSE 1

\* _create_ha_network: a network, its ha_router_networks row and, by
\* _create_ha_subnet, its one subnet, after the rows that rows holds
_create_ha_network(rows) == rows \o <<1>>

\* _create_ha_interfaces(context, router), its networks: the network of the
\* tenant if there is one, given a subnet if it has none, and a new network
\* if there is none
_create_ha_interfaces(networks, tenant_id) ==
    LET ha_network == get_ha_network(networks, tenant_id)
    IN  IF ha_network # NoNetwork
        THEN IF networks[tenant_id][ha_network] = 0
             THEN [networks EXCEPT ![tenant_id][ha_network] = 1]
             ELSE networks
        ELSE [networks EXCEPT ![tenant_id] = _create_ha_network(@)]

\* _add_ha that creates the interfaces and sets no identifier
_add_ha_interfaces_only(allocated, l3_agents) ==
    LET agents == _get_number_of_agents(l3_agents)
    IN  IF agents.exc # ""
        THEN [exc |-> agents.exc, vr_id |-> NULL, ports |-> 0]
        ELSE [exc |-> "", vr_id |-> NULL, ports |-> agents.num]

\* _add_ha(context, router): the HA interfaces, then the identifier; what
\* raises leaves nothing behind (the transaction rolls back)
_add_ha(allocated, l3_agents) ==
    LET agents == _get_number_of_agents(l3_agents)
        vrid   == _set_vr_id(allocated)
    IN  IF agents.exc # ""
        THEN [exc |-> agents.exc, vr_id |-> NULL, ports |-> 0]
        ELSE IF vrid.exc # ""
        THEN [exc |-> vrid.exc, vr_id |-> NULL, ports |-> 0]
        ELSE [exc |-> "", vr_id |-> vrid.vr_id, ports |-> agents.num]

\* the rows a request may create next: a fresh id
FreshRouter(r) ==
    /\ ~routers[r].exists
    /\ \A w \in Workers : txn[w].router # r
    /\ \A q \in RouterIds :
          q < r => routers[q].exists \/ \E w \in Workers : txn[w].router = q

Init ==
    /\ routers = [r \in RouterIds |-> NoRow]
    /\ \E n \in BaseSizes : base = [t \in Tenants |->
                                       IF t = "t1" THEN 1..n ELSE {}]
    /\ baseDeleted = FALSE
    /\ ha_networks = [t \in Tenants |->
                         IF base[t] # {} THEN _create_ha_network(<<>>) ELSE <<>>]
    /\ ha_ports = [r \in RouterIds |-> 0]
    /\ ha_bindings = [r \in RouterIds |-> <<>>]
    /\ CONF = L3_HA_OPTS
    /\ state_op = NoStateOp
    /\ txn = [w \in Workers |-> NoTxn]
    /\ last = Ended("", 0, "", 0, "", "")
    /\ pid_files = [uuid \in UUIDs |-> NoFile]
    /\ procs = [p \in Pids |-> NoProc]
    /\ conf_files = [uuid \in UUIDs |-> NoConf]
    /\ config = [uuid \in UUIDs |-> 1]
    /\ pm = [uuid \in UUIDs |-> FALSE]
    /\ uuid_type \in [UUIDs -> UuidTypes]
    /\ call = NoCall
    /\ frame = NoFrame

\* the API server, which manages no daemon
InitDB ==
    /\ Init
    /\ \A uuid \in UUIDs : uuid_type[uuid] = "str"
    /\ keepalived_conf = KeepalivedConf
    /\ conf_op = NoConfOp
    /\ InitScripts

(***************************************************************************)
(* Requests served one at a time.                                          *)
(***************************************************************************)
\* create_router -> _create_router_db, then the notification
CreateRouter(r, t, ha, l3_agents) ==
    /\ FreshRouter(r)
    /\ IF ~_is_ha_router(ha)
       THEN /\ routers' = [routers EXCEPT ![r] = Row(t, FALSE, NULL)]
            /\ last' = Ended("create", r, t, 0, "", "")
            /\ UNCHANGED <<ha_networks, ha_ports, ha_bindings>>
       ELSE LET res == _add_ha(allocated_vr_ids(routers, base, t, {NULL}),
                               l3_agents)
            IN  IF res.exc # ""
                THEN /\ last' = Ended("create", r, t, l3_agents, res.exc, "")
                     /\ UNCHANGED <<routers, ha_networks, ha_ports,
                                    ha_bindings>>
                ELSE /\ routers' = [routers EXCEPT
                                       ![r] = Row(t, TRUE, res.vr_id)]
                     /\ ha_networks' = _create_ha_interfaces(ha_networks, t)
                     /\ ha_ports' = [ha_ports EXCEPT ![r] = res.ports]
                     /\ ha_bindings' = [ha_bindings EXCEPT
                                           ![r] = port_bindings(res.ports)]
                     /\ last' = Ended("create", r, t, l3_agents, "", "add_ha_interfaces")
    /\ UNCHANGED <<base, baseDeleted, txn>>
    /\ UNCHANGED <<CONF, state_op, pmVars, confVars>>

\* update_router -> _update_router_db with data['ha'] = ha
UpdateRouter(r, ha, l3_agents) ==
    /\ routers[r].exists
    /\ \A w \in Workers : txn[w].router # r
    /\ LET t == routers[r].tenant
       IN  IF routers[r].ha /\ ~ha
           THEN /\ routers' = [routers EXCEPT ![r] = Row(t, ha, NULL)]
                /\ ha_ports' = [ha_ports EXCEPT ![r] = 0]
                /\ ha_bindings' = [ha_bindings EXCEPT ![r] = <<>>]
                /\ last' = Ended("update", r, t, 0, "", "del_ha_interfaces")
                /\ UNCHANGED ha_networks
           ELSE IF ~routers[r].ha /\ ha
           THEN LET res == _add_ha(allocated_vr_ids(routers, base, t, {}),
                                   l3_agents)
                IN  IF res.exc # ""
                    THEN /\ last' = Ended("update", r, t, l3_agents, res.exc, "")
                         /\ UNCHANGED <<routers, ha_networks, ha_ports,
                                        ha_bindings>>
                    ELSE /\ routers' = [routers EXCEPT
                                           ![r] = Row(t, ha, res.vr_id)]
                         /\ ha_networks' = _create_ha_interfaces(ha_networks, t)
                         /\ ha_ports' = [ha_ports EXCEPT ![r] = res.ports]
                         /\ ha_bindings' = [ha_bindings EXCEPT
                                               ![r] = port_bindings(res.ports)]
                         /\ last' = Ended("update", r, t, l3_agents, "",
                                          "add_ha_interfaces")
           ELSE /\ last' = Ended("update", r, t, 0, "", "")
                /\ UNCHANGED <<routers, ha_networks, ha_ports, ha_bindings>>
    /\ UNCHANGED <<base, baseDeleted, txn>>
    /\ UNCHANGED <<CONF, state_op, pmVars, confVars>>

\* delete_router
DeleteRouter(r) ==
    /\ routers[r].exists
    /\ \A w \in Workers : txn[w].router # r
    /\ routers' = [routers EXCEPT ![r] = NoRow]
    /\ ha_ports' = [ha_ports EXCEPT ![r] = 0]
    /\ ha_bindings' = [ha_bindings EXCEPT ![r] = <<>>]
    /\ last' = Ended("delete", r, routers[r].tenant, 0, "", "")
    /\ UNCHANGED <<base, baseDeleted, ha_networks, txn>>
    /\ UNCHANGED <<CONF, state_op, pmVars, confVars>>

\* delete_router of an HA router created before the run, the one of tenant t
\* that holds identifier v
DeleteBaseRouter(t, v) ==
    /\ ~baseDeleted
    /\ v \in base[t]
    /\ base' = [base EXCEPT ![t] = @ \ {v}]
    /\ baseDeleted' = TRUE
    /\ last' = Ended("delete", 0, t, 0, "", "")
    /\ UNCHANGED <<routers, ha_networks, ha_ports, ha_bindings, txn>>
    /\ UNCHANGED <<CONF, state_op, pmVars, confVars>>

NextSeq ==
    \/ \E r \in RouterIds, t \in Tenants, ha \in HaAttrs, n \in L3Agents :
          CreateRouter(r, t, ha, n)
    \/ \E r \in RouterIds, ha \in BOOLEAN, n \in L3Agents :
          UpdateRouter(r, ha, n)
    \/ \E r \in RouterIds : DeleteRouter(r)
    \/ \E t \in Tenants, v \in DeletableBase : DeleteBaseRouter(t, v)

SpecSeq == InitDB /\ [][NextSeq]_vars


(***************************************************************************)
(* One router under every setting of min_ and max_l3_agents_per_router:    *)
(* the requests that create it, set and clear its ha flag and delete it,   *)
(* each finding some number of l3 agents.                                  *)
(***************************************************************************)
AgentOpts == 0..MaxOpt
AgentCounts == 0..MaxAgents

\* empty tables, under one of the settings opts
InitOpts(opts) ==
    /\ routers = [r \in RouterIds |-> NoRow]
    /\ base = [t \in Tenants |-> {}]
    /\ baseDeleted = FALSE
    /\ ha_networks = [t \in Tenants |-> <<>>]
    /\ ha_ports = [r \in RouterIds |-> 0]
    /\ ha_bindings = [r \in RouterIds |-> <<>>]
    /\ CONF \in opts
    /\ state_op = NoStateOp
    /\ txn = [w \in Workers |-> NoTxn]
    /\ last = Ended("", 0, "", 0, "", "")
    /\ pid_files = [uuid \in UUIDs |-> NoFile]
    /\ procs = [p \in Pids |-> NoProc]
    /\ conf_files = [uuid \in UUIDs |-> NoConf]
    /\ config = [uuid \in UUIDs |-> 1]
    /\ pm = [uuid \in UUIDs |-> FALSE]
    /\ uuid_type = [uuid \in UUIDs |-> "str"]
    /\ call = NoCall
    /\ frame = NoFrame
    /\ keepalived_conf = KeepalivedConf
    /\ conf_op = NoConfOp
    /\ InitScripts

InitAgents ==
    InitOpts([min_l3_agents_per_router : AgentOpts,
              max_l3_agents_per_router : AgentOpts])

NextAgents ==
    \/ \E ha \in HaAttrs, n \in AgentCounts : CreateRouter(1, "t1", ha, n)
    \/ \E ha \in BOOLEAN, n \in AgentCounts : UpdateRouter(1, ha, n)
    \/ DeleteRouter(1)

SpecAgents == InitAgents /\ [][NextAgents]_vars

(***************************************************************************)
(* The state reports of the agents: routers are created, their HA port     *)
(* bindings are given the agents of two hosts, and the agents report       *)
(* 'master', 'slave' and, as keepalived notifies it, 'fault'.              *)
(***************************************************************************)
Hosts == {"host1", "host2"}
ReportedStates == l3_ha_states \cup {"fault"}

\* the scheduler binds the agent of a host to a port binding of router r
\* that has none
BindAgent(r, port, host) ==
    /\ port \in DOMAIN ha_bindings[r]
    /\ ha_bindings[r][port].agent = NoAgent
    /\ \A other \in DOMAIN ha_bindings[r] :
          ha_bindings[r][other].agent # host
    /\ ha_bindings' = [ha_bindings EXCEPT ![r][port].agent = host]
    /\ UNCHANGED <<routers, base, baseDeleted, ha_networks, ha_ports, txn,
                   last, CONF, state_op>>
    /\ UNCHANGED <<pmVars, confVars>>

\* L3_HA_NAT_rpc_mixin.update_router_state(context, router_id=, state=,
\* host=) -> l3plugin.update_router_state: a state that the Enum does not
\* list is refused by the database when the block ends, or stored as the
\* database stores it
UpdateRouterState(router_id, state, host) ==
    /\ LET bindings == get_ha_router_port_binding(ha_bindings, router_id,
                                                  host)
           n == Cardinality(bindings)
       IN  IF state \in l3_ha_states \/ bindings = {}
           THEN /\ ha_bindings' = update_bindings(ha_bindings, router_id,
                                                  bindings, state)
                /\ state_op' = [router_id |-> router_id, state |-> state,
                                host |-> host, exc |-> "", matched |-> n]
           ELSE \/ /\ UNCHANGED ha_bindings
                   /\ state_op' = [router_id |-> router_id, state |-> state,
                                   host |-> host, exc |-> "DBError",
                                   matched |-> n]
                \/ /\ ha_bindings' = update_bindings(ha_bindings, router_id,
                                                     bindings, NotInEnum)
                   /\ state_op' = [router_id |-> router_id, state |-> state,
                                   host |-> host, exc |-> "", matched |-> n]
    /\ UNCHANGED <<routers, base, baseDeleted, ha_networks, ha_ports, txn,
                   last, CONF>>
    /\ UNCHANGED <<pmVars, confVars>>

StateRouters == {1, 2}

NextState ==
    \/ \E r \in StateRouters, ha \in {"True", "False"} :
          CreateRouter(r, "t1", ha, min_l3_agents_per_router)
    \/ \E r \in StateRouters, port \in 1..max_l3_agents_per_router,
          host \in Hosts : BindAgent(r, port, host)
    \/ \E r \in StateRouters, state \in ReportedStates,
          host \in Hosts \cup {NoHost} : UpdateRouterState(r, state, host)

InitState == InitOpts({L3_HA_OPTS})

SpecState == InitState /\ [][NextState]_vars

(***************************************************************************)
(* Requests served by several API workers at once, each in its own         *)
(* session: the queries of _set_vr_id and get_ha_network read the          *)
(* committed rows and the session's own, and what the session wrote        *)
(* reaches the tables when the                                             *)
(* `with context.session.begin(subtransactions=True)` block ends. Requests *)
(* in flight are about different routers.                                  *)
(***************************************************************************)
\* _create_router_db up to the end of _add_ha
BeginCreate(w, r, t, ha, l3_agents) ==
    /\ txn[w].pc = "idle"
    /\ FreshRouter(r)
    /\ IF ~_is_ha_router(ha)
       THEN /\ txn' = [txn EXCEPT ![w] = Pending("create", r, t, FALSE, NULL,
                                                 0, 0, "", FALSE)]
            /\ UNCHANGED last
       ELSE LET res == _add_ha(allocated_vr_ids(routers, base, t, {NULL}),
                               l3_agents)
            IN  IF res.exc # ""
                THEN /\ last' = Ended("create", r, t, l3_agents, res.exc, "")
                     /\ UNCHANGED txn
                ELSE /\ txn' = [txn EXCEPT ![w] =
                                   Pending("create", r, t, TRUE, res.vr_id,
                                           res.ports, l3_agents,
                                           "add_ha_interfaces",
                                           _create_ha_interfaces(
                                               ha_networks, t) # ha_networks)]
                     /\ UNCHANGED last
    /\ UNCHANGED <<routers, base, baseDeleted, ha_networks, ha_ports,
                   ha_bindings>>
    /\ UNCHANGED <<CONF, state_op, pmVars, confVars>>

\* _update_router_db up to the end of _add_ha or _remove_ha
BeginUpdate(w, r, ha, l3_agents) ==
    /\ txn[w].pc = "idle"
    /\ routers[r].exists
    /\ \A v \in Workers : txn[v].router # r
    /\ LET t == routers[r].tenant
       IN  IF routers[r].ha /\ ~ha
           THEN /\ txn' = [txn EXCEPT ![w] =
                              Pending("update", r, t, ha, NULL, 0, 0,
                                      "del_ha_interfaces", FALSE)]
                /\ UNCHANGED last
           ELSE IF ~routers[r].ha /\ ha
           THEN LET res == _add_ha(allocated_vr_ids(routers, base, t, {}),
                                   l3_agents)
                IN  IF res.exc # ""
                    THEN /\ last' = Ended("update", r, t, l3_agents, res.exc, "")
                         /\ UNCHANGED txn
                    ELSE /\ txn' = [txn EXCEPT ![w] =
                                       Pending("update", r, t, ha, res.vr_id,
                                               res.ports, l3_agents,
                                               "add_ha_interfaces",
                                               _create_ha_interfaces(
                                                   ha_networks, t)
                                                       # ha_networks)]
                         /\ UNCHANGED last
           ELSE /\ txn' = [txn EXCEPT ![w] =
                              Pending("update", r, t, routers[r].ha,
                                      routers[r].ha_vr_id, ha_ports[r], 0, "",
                                      FALSE)]
                /\ UNCHANGED last
    /\ UNCHANGED <<routers, base, baseDeleted, ha_networks, ha_ports,
                   ha_bindings>>
    /\ UNCHANGED <<CONF, state_op, pmVars, confVars>>

\* the end of the `with` block, then the notification
Commit(w) ==
    /\ txn[w].pc = "commit"
    /\ LET x == txn[w]
       IN  /\ routers' = [routers EXCEPT
                             ![x.router] = Row(x.tenant, x.ha, x.vr_id)]
           /\ ha_ports' = [ha_ports EXCEPT ![x.router] = x.ports]
           /\ ha_bindings' = IF x.notify = "" THEN ha_bindings
                             ELSE [ha_bindings EXCEPT
                                      ![x.router] = port_bindings(x.ports)]
           /\ ha_networks' = IF x.network
                             THEN [ha_networks EXCEPT ![x.tenant] =
                                      _create_ha_network(@)]
                             ELSE ha_networks
           /\ last' = Ended(x.op, x.router, x.tenant, x.add_ha, "", x.notify)
    /\ txn' = [txn EXCEPT ![w] = NoTxn]
    /\ UNCHANGED <<base, baseDeleted>>
    /\ UNCHANGED <<CONF, state_op, pmVars, confVars>>

NextConc ==
    \/ \E w \in Workers, r \in RouterIds, t \in Tenants, ha \in HaAttrs,
          n \in L3Agents : BeginCreate(w, r, t, ha, n)
    \/ \E w \in Workers, r \in RouterIds, ha \in BOOLEAN, n \in L3Agents :
          BeginUpdate(w, r, ha, n)
    \/ \E w \in Workers : Commit(w)

SpecConc == InitDB /\ [][NextConc]_vars

(***************************************************************************)
(* One agent managing the keepalived daemons: the calls of the managers,   *)
(* one at a time, and between them what the daemons, the other processes   *)
(* of the host and its files do.                                           *)
(***************************************************************************)
\* the world a call starts in
World ==
    [pid_files |-> pid_files, procs |-> procs, conf_files |-> conf_files,
     config |-> config, pm |-> pm, events |-> <<>>, exc |-> "",
     fails |-> FALSE]

\* the world of a call in which the commands that are executed fail: the
\* root helper refuses them, or keepalived is not installed
FailingWorld == [World EXCEPT !.fails = TRUE]

\* the call op(uuid) ended in world w: what pm, active and pid were when it
\* started, what it did and the exception it raised ("" for none). The
\* process it started, if any, took a free pid; newpid is 1 where it
\* started none.
Return(op, uuid, kill9, w, newpid) ==
    /\ IF \E i \in 1..Len(w.events) : w.events[i].ev = "execute"
       THEN ~procs[newpid].alive ELSE newpid = 1
    /\ pid_files' = w.pid_files
    /\ procs' = w.procs
    /\ conf_files' = w.conf_files
    /\ pm' = w.pm
    /\ call' = [op |-> op, uuid |-> uuid, kill |-> kill9, pm |-> pm[uuid],
                active |-> active(pid_files, procs, uuid),
                pid |-> pid(pid_files, uuid), config |-> config[uuid],
                events |-> w.events, exc |-> w.exc]

PMEnable(uuid, newpid) ==
    /\ Return("enable", uuid, FALSE, enable(World, uuid, newpid), newpid)
    /\ UNCHANGED <<config, uuid_type, frame, dbVars, confVars>>

PMRestart(uuid) ==
    /\ Return("restart", uuid, FALSE, restart(World, uuid), 1)
    /\ UNCHANGED <<config, uuid_type, frame, dbVars, confVars>>

PMDisable(uuid, kill9) ==
    /\ Return("disable", uuid, kill9, disable(World, uuid, kill9), 1)
    /\ UNCHANGED <<config, uuid_type, frame, dbVars, confVars>>

PMEnableFails(uuid, newpid) ==
    /\ Return("enable", uuid, FALSE, enable(FailingWorld, uuid, newpid),
              newpid)
    /\ UNCHANGED <<config, uuid_type, frame, dbVars, confVars>>

PMRestartFails(uuid) ==
    /\ Return("restart", uuid, FALSE, restart(FailingWorld, uuid), 1)
    /\ UNCHANGED <<config, uuid_type, frame, dbVars, confVars>>

PMDisableFails(uuid, kill9) ==
    /\ Return("disable", uuid, kill9, disable(FailingWorld, uuid, kill9), 1)
    /\ UNCHANGED <<config, uuid_type, frame, dbVars, confVars>>

Spawn(uuid, newpid) ==
    /\ Return("spawn", uuid, FALSE, spawn(World, uuid, newpid), newpid)
    /\ UNCHANGED <<config, uuid_type, frame, dbVars, confVars>>

Restart(uuid, newpid) ==
    /\ Return("KeepalivedManager.restart", uuid, FALSE,
              KeepalivedManager_restart(World, uuid, newpid), newpid)
    /\ UNCHANGED <<config, uuid_type, frame, dbVars, confVars>>

SpawnOrRestart(uuid, newpid) ==
    /\ Return("spawn_or_restart", uuid, FALSE,
              spawn_or_restart(World, uuid, newpid), newpid)
    /\ UNCHANGED <<config, uuid_type, frame, dbVars, confVars>>

\* forced: why the agent stops the daemon, the router being deleted (TRUE) or
\* its HA being disabled (FALSE); disable() takes no argument to tell
Disable(uuid, forced) ==
    /\ Return("KeepalivedManager.disable", uuid, forced,
              KeepalivedManager_disable(World, uuid), 1)
    /\ UNCHANGED <<config, uuid_type, frame, dbVars, confVars>>

\* a step of the host, not a call
Host ==
    /\ call' = NoCall
    /\ UNCHANGED <<uuid_type, frame, dbVars, confVars>>

\* a daemon that was started writes its pid, in decimal, to the file that
\* its -p argument names
DaemonWritesPid(p) ==
    /\ procs[p].alive
    /\ procs[p].phase = "starting"
    /\ \E uuid \in DOMAIN pid_files :
          /\ procs[p].cmdline[1][6] = get_pid_file_name(uuid, "")
          /\ pid_files' = [pid_files EXCEPT ![uuid] = File(str(p) \o <<"\n">>)]
    /\ procs' = [procs EXCEPT ![p].phase = "running"]
    /\ Host
    /\ UNCHANGED <<conf_files, config, pm>>

\* a process ends: killed, crashed, or told to terminate
ProcessExits(p) ==
    /\ procs[p].alive
    /\ procs' = [procs EXCEPT ![p] = NoProc]
    /\ Host
    /\ UNCHANGED <<pid_files, conf_files, config, pm>>

\* a process of another takes a free pid
PidReused(p, proc) ==
    /\ ~procs[p].alive
    /\ procs' = [procs EXCEPT ![p] = proc]
    /\ Host
    /\ UNCHANGED <<pid_files, conf_files, config, pm>>

\* the pid file is lost, made unreadable or overwritten
PidFileDamaged(uuid, file) ==
    /\ pid_files[uuid] # file
    /\ pid_files' = [pid_files EXCEPT ![uuid] = file]
    /\ Host
    /\ UNCHANGED <<procs, conf_files, config, pm>>

\* the agent changes the configuration of the resource
Reconfigure(uuid, conf) ==
    /\ config[uuid] # conf
    /\ config' = [config EXCEPT ![uuid] = conf]
    /\ Host
    /\ UNCHANGED <<pid_files, procs, conf_files, pm>>

NextPM ==
    \/ \E uuid \in UUIDs, newpid \in Pids : PMEnable(uuid, newpid)
    \/ \E uuid \in UUIDs : PMRestart(uuid)
    \/ \E uuid \in UUIDs, kill9 \in BOOLEAN : PMDisable(uuid, kill9)
    \/ \E uuid \in UUIDs, newpid \in Pids : Spawn(uuid, newpid)
    \/ \E uuid \in UUIDs, newpid \in Pids : Restart(uuid, newpid)
    \/ \E uuid \in UUIDs, newpid \in Pids : SpawnOrRestart(uuid, newpid)
    \/ \E uuid \in UUIDs, forced \in BOOLEAN : Disable(uuid, forced)
    \/ \E p \in Pids : DaemonWritesPid(p)
    \/ \E p \in Pids : ProcessExits(p)
    \/ \E p \in Pids, proc \in OtherProcs : PidReused(p, proc)
    \/ \E uuid \in UUIDs, file \in StalePidFiles : PidFileDamaged(uuid, file)
    \/ \E uuid \in UUIDs, conf \in ConfVersions : Reconfigure(uuid, conf)

\* the agent's host holds no router table
InitPM ==
    /\ Init
    /\ \A t \in Tenants : base[t] = {}
    /\ keepalived_conf = KeepalivedConf
    /\ conf_op = NoConfOp
    /\ InitScripts

SpecPM == InitPM /\ [][NextPM]_vars

(***************************************************************************)
(* The calls of one manager taken statement by statement: between two      *)
(* reads of the pid file or of /proc, and between a read and the kill      *)
(* command, the daemon may end, its pid may be taken by a process of       *)
(* another and the pid file may be written again.                          *)
(***************************************************************************)
\* the world of the call under way, with what the call did so far
FrameWorld == [World EXCEPT !.events = frame.events]
\* the agent's thread is not inside a call
Free == frame.pc \in {"idle", "done"}
\* the frame of a call that starts
Enter(op, uuid, signal) ==
    [NoFrame EXCEPT !.op = op, !.uuid = uuid, !.signal = signal]
\* the call under way went on to pc, the world being w after the statement;
\* an exception ends it
Goes(f, w, pc) ==
    [f EXCEPT !.events = w.events, !.exc = w.exc,
              !.pc = IF w.exc # "" THEN "done" ELSE pc]

\* a statement of the call left the world w; newpid is the pid of the daemon
\* if it started one
Statement(w, newpid) ==
    /\ IF \E i \in 1..Len(w.events) : w.events[i].ev = "execute"
       THEN ~procs[newpid].alive ELSE newpid = 1
    /\ pid_files' = w.pid_files
    /\ procs' = w.procs
    /\ conf_files' = w.conf_files
    /\ pm' = w.pm
    /\ call' = NoCall
    /\ UNCHANGED <<config, uuid_type, dbVars, confVars>>

\* ProcessManager.restart() is called: self._kill('HUP')
CallRestart(uuid) ==
    /\ Free
    /\ frame' = [Enter("restart", uuid, "HUP") EXCEPT !.pc = "kill_pid"]
    /\ Statement(World, 1)

\* ProcessManager.disable(kill) is called: self._kill('9') or self._kill('15')
CallDisable(uuid, kill9) ==
    /\ Free
    /\ frame' = [Enter("disable", uuid, IF kill9 THEN "9" ELSE "15")
                    EXCEPT !.pc = "kill_pid"]
    /\ Statement(World, 1)

\* how far spawn_or_restart gets with its first reads, a being what
\* self.pm.active gave to restart(): without self.pm it is spawn(), which
\* enable() ends
spawn_or_restart_begin(w, uuid, newpid, a) ==
    IF ~w.pm[uuid] THEN spawn(w, uuid, newpid)
    ELSE IF a \notin {"True", "False"} THEN Raise(w, a)
    ELSE w

\* KeepalivedManager.spawn_or_restart() is called; with self.pm set it is
\* restart(), which reads self.pm.active
CallSpawnOrRestart(uuid, newpid) ==
    /\ Free
    /\ frame' = Goes([Enter("spawn_or_restart", uuid, "HUP")
                         EXCEPT !.manager_active =
                                    IF pm[uuid]
                                    THEN active(pid_files, procs, uuid)
                                    ELSE ""],
                     spawn_or_restart_begin(World, uuid, newpid,
                                            active(pid_files, procs, uuid)),
                     IF ~pm[uuid] THEN "done"
                     ELSE IF active(pid_files, procs, uuid) = "True"
                     THEN "output" ELSE "respawn")
    /\ Statement(spawn_or_restart_begin(World, uuid, newpid,
                                        active(pid_files, procs, uuid)),
                 newpid)

\* restart() found the daemon active: self._output_config_file(), and then
\* self.pm.restart()
RestartOutputs ==
    /\ frame.pc = "output"
    /\ frame' = Goes(frame, _output_config_file(FrameWorld, frame.uuid),
                     "kill_pid")
    /\ Statement(_output_config_file(FrameWorld, frame.uuid), 1)

\* restart() found no daemon: self.pm.disable() and self.spawn()
RestartRespawns(newpid) ==
    /\ frame.pc = "respawn"
    /\ frame' = Goes(frame,
                     spawn(disable(FrameWorld, frame.uuid, TRUE),
                           frame.uuid, newpid),
                     "done")
    /\ Statement(spawn(disable(FrameWorld, frame.uuid, TRUE),
                       frame.uuid, newpid), newpid)

\* _kill: pid = self.pid
KillReadsPid ==
    /\ frame.pc = "kill_pid"
    /\ frame' = [frame EXCEPT !.pid = pid(pid_files, frame.uuid),
                              !.pc = "kill_active"]
    /\ Statement(FrameWorld, 1)

\* _kill: `if self.active:`, which reads the pid file again and then the
\* command line of the pid it holds
KillChecksActive ==
    /\ frame.pc = "kill_active"
    /\ frame' = [frame EXCEPT !.active = active(pid_files, procs, frame.uuid),
                              !.pc = "kill_signal"]
    /\ Statement(FrameWorld, 1)

\* the process that a kill of pid p reaches
Reached(p) ==
    IF p.val \in Pids /\ procs[p.val].alive THEN procs[p.val] ELSE NoProc

\* _kill: the kill command for the pid read first when active was true, a
\* log entry otherwise; after it disable() goes on
KillSignals ==
    /\ frame.pc = "kill_signal"
    /\ frame' = [Goes(frame,
                      _kill_if(FrameWorld, frame.uuid, frame.signal,
                               frame.pid, frame.active),
                      IF frame.op = "disable" THEN "unlink" ELSE "done")
                    EXCEPT !.hit = IF frame.active = "True"
                                   THEN Reached(frame.pid) ELSE NoProc]
    /\ Statement(_kill_if(FrameWorld, frame.uuid, frame.signal,
                          frame.pid, frame.active), 1)

\* disable: the pid file is removed
DisableUnlinks ==
    /\ frame.pc = "unlink"
    /\ frame' = Goes(frame, unlink(FrameWorld, frame.uuid), "done")
    /\ Statement(unlink(FrameWorld, frame.uuid), 1)

\* a process ends, a call being under way or not
ProcessExitsMeanwhile(p) ==
    /\ procs[p].alive
    /\ procs' = [procs EXCEPT ![p] = NoProc]
    /\ frame' = [frame EXCEPT !.exited = @ \/ ~Free]
    /\ call' = NoCall
    /\ UNCHANGED <<pid_files, conf_files, config, pm, uuid_type>>
    /\ UNCHANGED <<dbVars, confVars>>

\* the pid files that a daemon of the resource wrote
WrittenPidFiles == {File(str(p) \o <<"\n">>) : p \in Pids}

NextSteps ==
    \/ \E uuid \in UUIDs : CallRestart(uuid)
    \/ \E uuid \in UUIDs, kill9 \in BOOLEAN : CallDisable(uuid, kill9)
    \/ \E uuid \in UUIDs, newpid \in Pids : CallSpawnOrRestart(uuid, newpid)
    \/ RestartOutputs
    \/ \E newpid \in Pids : RestartRespawns(newpid)
    \/ KillReadsPid
    \/ KillChecksActive
    \/ KillSignals
    \/ DisableUnlinks
    \/ \E p \in Pids : DaemonWritesPid(p)
    \/ \E p \in Pids : ProcessExitsMeanwhile(p)
    \/ \E p \in Pids, proc \in OtherProcs : PidReused(p, proc)
    \/ \E uuid \in UUIDs, file \in WrittenPidFiles : PidFileDamaged(uuid, file)

SpecSteps == InitPM /\ [][NextSteps]_vars

(***************************************************************************)
(* One agent with the ProcessManager of two resources, the id of one being *)
(* the beginning of the id of the other: the calls of the two managers in  *)
(* any order, the commands they execute succeeding or failing, and between *)
(* them what their daemons do.                                             *)
(***************************************************************************)
PairUUIDs == {"router1", "router10"}

InitPair ==
    /\ routers = [r \in RouterIds |-> NoRow]
    /\ base = [t \in Tenants |-> {}]
    /\ baseDeleted = FALSE
    /\ ha_networks = [t \in Tenants |-> <<>>]
    /\ ha_ports = [r \in RouterIds |-> 0]
    /\ ha_bindings = [r \in RouterIds |-> <<>>]
    /\ CONF = L3_HA_OPTS
    /\ state_op = NoStateOp
    /\ txn = [w \in Workers |-> NoTxn]
    /\ last = Ended("", 0, "", 0, "", "")
    /\ pid_files = [uuid \in PairUUIDs |-> NoFile]
    /\ procs = [p \in Pids |-> NoProc]
    /\ conf_files = [uuid \in PairUUIDs |-> NoConf]
    /\ config = [uuid \in PairUUIDs |-> 1]
    /\ pm = [uuid \in PairUUIDs |-> FALSE]
    /\ uuid_type = [uuid \in PairUUIDs |-> "str"]
    /\ call = NoCall
    /\ frame = NoFrame
    /\ keepalived_conf = KeepalivedConf
    /\ conf_op = NoConfOp
    /\ InitScripts

NextPair ==
    \/ \E uuid \in PairUUIDs, newpid \in Pids : PMEnable(uuid, newpid)
    \/ \E uuid \in PairUUIDs : PMRestart(uuid)
    \/ \E uuid \in PairUUIDs, kill9 \in BOOLEAN : PMDisable(uuid, kill9)
    \/ \E uuid \in PairUUIDs, newpid \in Pids : PMEnableFails(uuid, newpid)
    \/ \E uuid \in PairUUIDs : PMRestartFails(uuid)
    \/ \E uuid \in PairUUIDs, kill9 \in BOOLEAN :
          PMDisableFails(uuid, kill9)
    \/ \E p \in Pids : DaemonWritesPid(p)
    \/ \E p \in Pids : ProcessExits(p)

SpecPair == InitPair /\ [][NextPair]_vars

(***************************************************************************)
(* The agent building the configuration of a router: the calls on a        *)
(* KeepalivedConf, on its groups and on its instances, one at a time. An   *)
(* instance or a group is reached by get_instance() or get_group(), and a  *)
(* call is made on one that is there.                                      *)
(***************************************************************************)
MaxItems == 4

InstanceNames == {"i1", "i2"}
GroupNames == {"g", "g2"}
States == {"MASTER", "aaaa"}
AuthTypes == {"AH", "MD5"}
NotifyStates == {"master", "aaa"}
Interfaces == {"eth0", "eth2"}
IpAddresses == {"10.0.0.1/24", "10.0.0.2/24"}

\* the keyword arguments of KeepalivedInstance(): none given, all given
Defaults ==
    [priority |-> 50, advert_int |-> NoneInt, mcast_src_ip |-> NoneStr,
     nopreempt |-> FALSE, garp_master_delay |-> NoneInt]
Keywords ==
    {Defaults,
     [priority |-> 0, advert_int |-> 5, mcast_src_ip |-> "224.0.0.1",
      nopreempt |-> TRUE, garp_master_delay |-> 60]}

\* what the agent appends to the lists of the instance of a router
RouterItems ==
    [track_interfaces |-> {"eth0"},
     vip_addresses |-> {KeepalivedVipAddress("10.0.0.1/24", "eth0"),
                        KeepalivedVipAddress("10.0.0.2/24", NoneStr)},
     vip_addresses_excluded |->
         {KeepalivedVipAddress("10.0.0.3/24", "eth2")},
     virtual_routes |->
         {KeepalivedVirtualRoute("0.0.0.0/0", "10.0.0.1", "eth0")}]

\* the global_defs of the agent: nothing set; after
\* add_notification_email(), set_email_from() and set_smtp_server()
Globaldefs ==
    {KeepalivedGlobaldefs,
     [notification_emails |-> <<"test@test.test">>,
      notification_email_from |-> "from@from.from",
      smtp_server |-> "smtp.smtp.com", smtp_connect_timeout |-> 300]}

\* the objects a configuration holds: the global_defs, the groups with
\* their members and notifiers, the instances with what their lists hold
RECURSIVE items(_)
items(objects) ==
    IF objects = <<>> THEN 0
    ELSE items(Tail(objects)) + 1
         + (IF "notifiers" \in DOMAIN Head(objects)
            THEN Len(Head(objects).instance_names)
                 + Len(Head(objects).notifiers)
            ELSE Len(Head(objects).track_interfaces)
                 + Len(Head(objects).vip_addresses)
                 + Len(Head(objects).vip_addresses_excluded)
                 + Len(Head(objects).virtual_routes)
                 + Len(Head(objects).authentication) \div 2)

Items(conf) ==
    Len(conf.global_defs) + items(conf.groups) + items(conf.instances)

Room == Items(keepalived_conf) < MaxItems

\* the call op(arg) on the object called name ended with the exception exc
\* ("" for none), having returned made new objects and the lines; items is
\* how many objects the configuration held when the call was made, and
\* after is the call that a build_config() follows, where that is a reset(),
\* a build_config() or one of the calls that remove from an instance
ConfReturn(op, name, arg, exc, made, lines) ==
    conf_op' = [op |-> op, name |-> name, arg |-> arg, exc |-> exc,
                made |-> made, lines |-> lines,
                items |-> Items(keepalived_conf),
                after |-> IF op = "build_config"
                             /\ conf_op.op \in
                                    {"reset", "build_config",
                                     "remove_vips_vroutes_by_interface",
                                     "remove_vip_by_ip_address"}
                          THEN conf_op.op ELSE ""]

\* the configuration with the instance (the group) at the place i as the
\* call on it left it
with_instance(conf, i, instance) == [conf EXCEPT !.instances[i] = instance]
with_group(conf, i, group) == [conf EXCEPT !.groups[i] = group]

InstanceAt(name) == place(keepalived_conf.instances, "name", name)
GroupAt(name) == place(keepalived_conf.groups, "name", name)

Elsewhere == UNCHANGED <<dbVars, pmVars, scriptVars>>

\* conf.add_instance(KeepalivedInstance(name, state, 'eth0', 10, **kw))
new_instance(conf, made, at) ==
    IF made.exc # "" THEN conf ELSE add_instance(conf, made.obj[1], at)

NewInstance(name, state, kw, at) ==
    /\ Room
    /\ at \in 1..(Len(keepalived_conf.instances) + 1)
    /\ keepalived_conf' =
           new_instance(keepalived_conf,
                        KeepalivedInstance(name, state, "eth0", 10,
                            kw.priority, kw.advert_int, kw.mcast_src_ip,
                            kw.nopreempt, kw.garp_master_delay), at)
    /\ ConfReturn("KeepalivedInstance", name, state,
                  KeepalivedInstance(name, state, "eth0", 10,
                      kw.priority, kw.advert_int, kw.mcast_src_ip,
                      kw.nopreempt, kw.garp_master_delay).exc,
                  Len(KeepalivedInstance(name, state, "eth0", 10,
                      kw.priority, kw.advert_int, kw.mcast_src_ip,
                      kw.nopreempt, kw.garp_master_delay).obj), <<>>)
    /\ Elsewhere

DelInstance(name) ==
    /\ keepalived_conf' = del_instance(keepalived_conf, [name |-> name])
    /\ ConfReturn("del_instance", name, "", "", 0, <<>>)
    /\ Elsewhere

SetAuthentication(name, type) ==
    /\ InstanceAt(name) # 0
    /\ Room
    /\ keepalived_conf' =
           with_instance(keepalived_conf, InstanceAt(name),
               set_authentication(
                   keepalived_conf.instances[InstanceAt(name)],
                   type, "pass123").obj)
    /\ ConfReturn("set_authentication", name, type,
                  set_authentication(
                      keepalived_conf.instances[InstanceAt(name)],
                      type, "pass123").exc, 0, <<>>)
    /\ Elsewhere

\* instance.<list>.append(item)
ListAppend(name, list, item) ==
    /\ InstanceAt(name) # 0
    /\ Room
    /\ keepalived_conf' =
           with_instance(keepalived_conf, InstanceAt(name),
               [keepalived_conf.instances[InstanceAt(name)]
                   EXCEPT ![list] = Append(@, item)])
    /\ ConfReturn("append", "", "", "", 0, <<>>)
    /\ Elsewhere

RemoveVipsVroutesByInterface(name, interface_name) ==
    /\ InstanceAt(name) # 0
    /\ keepalived_conf' =
           with_instance(keepalived_conf, InstanceAt(name),
               remove_vips_vroutes_by_interface(
                   keepalived_conf.instances[InstanceAt(name)],
                   interface_name))
    /\ ConfReturn("remove_vips_vroutes_by_interface", name, interface_name,
                  "", 0, <<>>)
    /\ Elsewhere

RemoveVipByIpAddress(name, ip_address) ==
    /\ InstanceAt(name) # 0
    /\ keepalived_conf' =
           with_instance(keepalived_conf, InstanceAt(name),
               remove_vip_by_ip_address(
                   keepalived_conf.instances[InstanceAt(name)], ip_address))
    /\ ConfReturn("remove_vip_by_ip_address", name, ip_address, "", 0, <<>>)
    /\ Elsewhere

\* conf.add_group(KeepalivedGroup(name))
NewGroup(name, at) ==
    /\ Room
    /\ at \in 1..(Len(keepalived_conf.groups) + 1)
    /\ keepalived_conf' = add_group(keepalived_conf, KeepalivedGroup(name), at)
    /\ ConfReturn("KeepalivedGroup", name, "", "", 1, <<>>)
    /\ Elsewhere

DelGroup(name) ==
    /\ keepalived_conf' = del_group(keepalived_conf, [name |-> name])
    /\ ConfReturn("del_group", name, "", "", 0, <<>>)
    /\ Elsewhere

\* group.add_instance(instance), of an instance the caller holds
GroupAddInstance(name, member, at) ==
    /\ GroupAt(name) # 0
    /\ Room
    /\ at \in 1..(Len(keepalived_conf.groups[GroupAt(name)].instance_names)
                   + 1)
    /\ keepalived_conf' =
           with_group(keepalived_conf, GroupAt(name),
               KeepalivedGroup_add_instance(
                   keepalived_conf.groups[GroupAt(name)],
                   [name |-> member], at))
    /\ ConfReturn("add_instance", name, member, "", 0, <<>>)
    /\ Elsewhere

GroupRemoveInstance(name, member) ==
    /\ GroupAt(name) # 0
    /\ keepalived_conf' =
           with_group(keepalived_conf, GroupAt(name),
               remove_instance(keepalived_conf.groups[GroupAt(name)],
                               [name |-> member]))
    /\ ConfReturn("remove_instance", name, member, "", 0, <<>>)
    /\ Elsewhere

SetNotify(name, state, at) ==
    /\ GroupAt(name) # 0
    /\ Room
    /\ at \in 1..(Len(keepalived_conf.groups[GroupAt(name)].notifiers) + 1)
    /\ keepalived_conf' =
           with_group(keepalived_conf, GroupAt(name),
               set_notify(keepalived_conf.groups[GroupAt(name)],
                          state, "/tmp/script.sh", at).obj)
    /\ ConfReturn("set_notify", name, state,
                  set_notify(keepalived_conf.groups[GroupAt(name)],
                             state, "/tmp/script.sh", at).exc, 0, <<>>)
    /\ Elsewhere

SetGlobalDefs(global_defs) ==
    /\ Room \/ keepalived_conf.global_defs # <<>>
    /\ keepalived_conf' = set_global_defs(keepalived_conf, global_defs)
    /\ ConfReturn("set_global_defs", "", "", "", 0, <<>>)
    /\ Elsewhere

Reset ==
    /\ keepalived_conf' = reset(keepalived_conf)
    /\ ConfReturn("reset", "", "", "", 0, <<>>)
    /\ Elsewhere

BuildConfig ==
    /\ keepalived_conf' = build_config(keepalived_conf).conf
    /\ ConfReturn("build_config", "", "", "", 0,
                  build_config(keepalived_conf).lines)
    /\ Elsewhere

NextConf ==
    \/ \E name \in InstanceNames, state \in States, kw \in Keywords,
          at \in 1..(Cardinality(InstanceNames) + 1) :
              NewInstance(name, state, kw, at)
    \/ \E name \in InstanceNames : DelInstance(name)
    \/ \E name \in InstanceNames, type \in AuthTypes :
          SetAuthentication(name, type)
    \/ \E name \in InstanceNames, list \in DOMAIN RouterItems :
          \E item \in RouterItems[list] : ListAppend(name, list, item)
    \/ \E name \in GroupNames, at \in 1..(Cardinality(GroupNames) + 1) :
          NewGroup(name, at)
    \/ \E name \in GroupNames : DelGroup(name)
    \/ \E name \in GroupNames, member \in InstanceNames,
          at \in 1..(Cardinality(InstanceNames) + 1) :
              GroupAddInstance(name, member, at)
    \/ \E name \in GroupNames, member \in InstanceNames :
          GroupRemoveInstance(name, member)
    \/ \E name \in GroupNames, state \in NotifyStates,
          at \in 1..(Cardinality(NotifyStates) + 1) :
              SetNotify(name, state, at)
    \/ \E global_defs \in Globaldefs : SetGlobalDefs(global_defs)
    \/ Reset
    \/ BuildConfig

\* the agent has made no call yet
InitConf ==
    /\ Init
    /\ \A t \in Tenants : base[t] = {}
    /\ \A uuid \in UUIDs : uuid_type[uuid] = "str"
    /\ keepalived_conf = KeepalivedConf
    /\ conf_op = NoConfOp
    /\ InitScripts

SpecConf == InitConf /\ [][NextConf]_vars

(***************************************************************************)
(* The instance of a router whose interfaces and addresses go: the calls   *)
(* that remove from its lists, whatever the lists hold, and build_config() *)
(* of the configuration that holds it in a group.                          *)
(***************************************************************************)
MaxVips == 3
MaxOthers == 2

\* the addresses and routes the lists of the instance may hold
Vips ==
    {KeepalivedVipAddress("10.0.0.1/24", "eth0"),
     KeepalivedVipAddress("10.0.0.1/24", "eth2"),
     KeepalivedVipAddress("10.0.0.2/24", "eth2"),
     KeepalivedVipAddress("10.0.0.2/24", NoneStr)}
ExcludedVips ==
    {KeepalivedVipAddress("10.0.0.1/24", "eth2"),
     KeepalivedVipAddress("10.0.0.2/24", "eth2")}
Routes ==
    {KeepalivedVirtualRoute("0.0.0.0/0", "10.0.0.1", interface) :
        interface \in Interfaces}

\* the lists of at most n items of S
Longer(lists, S) ==
    lists \cup {Append(list, item) : list \in lists, item \in S}
RECURSIVE Lists(_, _)
Lists(S, n) == IF n = 0 THEN {<<>>} ELSE Longer(Lists(S, n - 1), S)

\* KeepalivedInstance('i1', 'MASTER', 'eth0', 10) after the appends that
\* gave its lists these items
RouterInstance(vips, excluded, routes) ==
    [KeepalivedInstance("i1", "MASTER", "eth0", 10, Defaults.priority,
         Defaults.advert_int, Defaults.mcast_src_ip, Defaults.nopreempt,
         Defaults.garp_master_delay).obj[1]
     EXCEPT !.vip_addresses = vips, !.vip_addresses_excluded = excluded,
            !.virtual_routes = routes]

\* the same instance when every keyword was given to KeepalivedInstance(),
\* an interface is tracked and set_authentication() was called
DressedInstance(vips, excluded, routes) ==
    [set_authentication(
         KeepalivedInstance("i1", "MASTER", "eth0", 10,
             (CHOOSE kw \in Keywords : kw # Defaults).priority,
             (CHOOSE kw \in Keywords : kw # Defaults).advert_int,
             (CHOOSE kw \in Keywords : kw # Defaults).mcast_src_ip,
             (CHOOSE kw \in Keywords : kw # Defaults).nopreempt,
             (CHOOSE kw \in Keywords : kw # Defaults).garp_master_delay).obj[1],
         "AH", "pass123").obj
     EXCEPT !.track_interfaces = <<"eth0">>,
            !.vip_addresses = vips, !.vip_addresses_excluded = excluded,
            !.virtual_routes = routes]

\* the configuration of the router: the group g of the instance i1
RouterConf(instance) ==
    add_instance(
        add_group(KeepalivedConf,
                  KeepalivedGroup_add_instance(KeepalivedGroup("g"),
                                               instance, 1), 1),
        instance, 1)

InitInst ==
    /\ Init
    /\ \A t \in Tenants : base[t] = {}
    /\ \A uuid \in UUIDs : uuid_type[uuid] = "str"
    /\ \E excluded \in Lists(ExcludedVips, MaxOthers),
          routes \in Lists(Routes, MaxOthers) :
              \/ \E vips \in Lists(Vips, MaxVips) :
                     keepalived_conf =
                         RouterConf(RouterInstance(vips, excluded, routes))
              \/ \E vips \in Lists(Vips, MaxOthers) :
                     keepalived_conf =
                         RouterConf(DressedInstance(vips, excluded, routes))
    /\ conf_op = NoConfOp
    /\ InitScripts

NextInst ==
    \/ \E interface \in Interfaces :
          RemoveVipsVroutesByInterface("i1", interface)
    \/ \E ip \in IpAddresses : RemoveVipByIpAddress("i1", ip)
    \/ BuildConfig

SpecInst == InitInst /\ [][NextInst]_vars

(***************************************************************************)
(* The agent registering the notify commands of a router and writing its   *)
(* notify scripts: the calls on a KeepalivedNotifyScriptManager, one at a   *)
(* time.                                                                    *)
(***************************************************************************)
\* commands that the buckets of a run may hold together
MaxCmds == 3

Commands == {"master.sh", "backup1.sh"}
\* the states a caller names: two of the valid ones, the router having no
\* command for fault, and one that is not valid
ScriptStates == {"master", "backup", "aaa"}

RECURSIVE held(_, _)
held(buckets, keys) ==
    IF keys = {} THEN 0
    ELSE LET key == CHOOSE k \in keys : TRUE
         IN  Len(buckets[key]) + held(buckets, keys \ {key})

NotifyReturn(op, state, cmd, exc, w) ==
    notify_op' = [op |-> op, state |-> state, cmd |-> cmd, exc |-> exc,
                  returned |-> w.returned, written |-> w.written,
                  chmods |-> w.chmods]

AddNotify(state, cmd) ==
    /\ held(manager_notifiers, DOMAIN manager_notifiers) < MaxCmds
    /\ manager_notifiers' = add_notify(manager_notifiers, state, cmd).obj
    /\ NotifyReturn("add_notify", state, cmd,
                    add_notify(manager_notifiers, state, cmd).exc, Run(disk))
    /\ UNCHANGED <<disk, dbVars, pmVars, keepalived_conf, conf_op>>

ResetNotifiers(state) ==
    /\ manager_notifiers' = reset_notifiers(manager_notifiers, state)
    /\ NotifyReturn("reset_notifiers", state, "", "", Run(disk))
    /\ UNCHANGED <<disk, dbVars, pmVars, keepalived_conf, conf_op>>

GetNotifiersPath ==
    /\ disk' = get_notifiers_path(manager_notifiers, disk).disk
    /\ NotifyReturn("get_notifiers_path", "", "", "",
                    get_notifiers_path(manager_notifiers, disk))
    /\ UNCHANGED <<manager_notifiers, dbVars, pmVars, keepalived_conf, conf_op>>

NextScripts ==
    \/ \E state \in ScriptStates, cmd \in Commands : AddNotify(state, cmd)
    \/ \E state \in {NoneStr, "backup", "aaa"} : ResetNotifiers(state)
    \/ GetNotifiersPath

SpecScripts == InitConf /\ [][NextScripts]_vars


(***************************************************************************)
(* Properties of the identifier allocation.                                *)
(***************************************************************************)
\* the identifiers that the routers of tenant t hold
HeldVrIds(t) ==
    ({routers[r].ha_vr_id : r \in TenantRouters(routers, t)} \ {NULL})
        \cup base[t]
HaRouters(t) == {r \in TenantRouters(routers, t) : routers[r].ha}
Idle == \A w \in Workers : txn[w].pc = "idle"
Lowest(S) == CHOOSE x \in S : \A y \in S : x <= y
\* the step is a request that went through _add_ha
AddHaStep == last'.add_ha # 0
AddHaDone == AddHaStep /\ last'.exc = ""

\* C1: requests that allocate concurrently in a tenant with no earlier
\* allocation end with as many distinct identifiers, all in 1..254, as there
\* are HA routers.
C1_ConcurrentDistinct ==
    Idle => \A t \in Tenants :
               base[t] = {} =>
                  /\ Cardinality({routers[r].ha_vr_id : r \in HaRouters(t)})
                        = Cardinality(HaRouters(t))
                  /\ \A r \in HaRouters(t) :
                        routers[r].ha_vr_id \in 1..VR_ID_MAX

\* C2: with requests served one at a time, no two HA routers of a tenant
\* hold the same ha_vr_id, and every HA router holds one in 1..254.
C2_UniqueInRange ==
    \A t \in Tenants :
        /\ \A r1, r2 \in HaRouters(t) :
              r1 # r2 => routers[r1].ha_vr_id # routers[r2].ha_vr_id
        /\ \A r \in HaRouters(t) :
              /\ routers[r].ha_vr_id \in 1..VR_ID_MAX
              /\ routers[r].ha_vr_id \notin base[t]
        /\ base[t] \subseteq 1..VR_ID_MAX

\* two HA routers created by the run in one tenant, one of them updated
C2_Witness ==
    /\ last.op = "update"
    /\ \E t \in Tenants : Cardinality(HaRouters(t)) >= 2

Exhausted(t) == HeldVrIds(t) = 1..VR_ID_MAX
NothingAssigned ==
    UNCHANGED <<routers, base, ha_networks, ha_ports, ha_bindings>>

C4_LowestFree ==
    [][AddHaDone
          => routers'[last'.router].ha_vr_id
                = Lowest((1..VR_ID_MAX) \ HeldVrIds(last'.tenant))]_vars

\* C5: what a tenant is assigned depends on the identifiers of its own
\* routers only: the allocator's answer for them, which is the same
\* identifier for the first HA router of every tenant; it fails for want of
\* an identifier only if the tenant itself holds them all; and a request
\* leaves the routers of the other tenants as they were.
C5_TenantScoped ==
    [][/\ AddHaDone
          => /\ routers'[last'.router].ha_vr_id
                   = _set_vr_id(HeldVrIds(last'.tenant) \cup {NULL}).vr_id
             /\ HeldVrIds(last'.tenant) = {}
                   => routers'[last'.router].ha_vr_id
                         = _set_vr_id({NULL}).vr_id
       /\ last'.exc = "NoVRIDAvailable" => Exhausted(last'.tenant)
       /\ \A t \in Tenants \ {last'.tenant} :
             /\ base'[t] = base[t]
             /\ \A r \in TenantRouters(routers, t) : routers'[r] = routers[r]
      ]_vars

\* the first HA routers of two tenants hold the same identifier while the
\* other routers of one of them hold other identifiers
C5_Witness ==
    \E r1, r2 \in RouterIds :
        /\ routers[r1].ha /\ routers[r2].ha
        /\ routers[r1].tenant = "t1" /\ routers[r2].tenant = "t2"
        /\ routers[r1].ha_vr_id = routers[r2].ha_vr_id
        /\ last.router = r2 /\ last.add_ha # 0 /\ last.exc = ""

(***************************************************************************)
(* Properties of the process and keepalived managers.                      *)
(***************************************************************************)
IsSignal(e) == e.ev = "kill"
IsStart(e) == e.ev = "execute"
\* the signals a call sent, in order
Signals(events) == SelectSeq(events, IsSignal)
\* a start of the daemon, or a HUP sent to it
LoadsConfig(e) == IsStart(e) \/ (IsSignal(e) /\ e.sig = "HUP")
ManagerCalls == {"spawn", "KeepalivedManager.restart", "spawn_or_restart"}

\* C6: in a call of spawn, restart or spawn_or_restart of the keepalived
\* manager, every start of the daemon and every HUP comes after a write of
\* the configuration file in that call, and the file then holds the
\* configuration that the manager has.
C6_WriteBeforeLoad ==
    call.op \in ManagerCalls =>
        \A i \in 1..Len(call.events) :
            LoadsConfig(call.events[i]) =>
                /\ \E j \in 1..(i - 1) : call.events[j].ev = "write"
                /\ call.events[i].conf = call.config

\* a spawn_or_restart that sent HUP for a configuration that was changed
\* since the daemon's start
C6_Witness ==
    /\ call.op = "spawn_or_restart"
    /\ call.config = 2
    /\ \E i \in 1..Len(call.events) :
          IsSignal(call.events[i]) /\ call.events[i].sig = "HUP"

\* the text of a pid file is a number
IsIntegerText(s) == IsDecimal(Unsigned(rstrip(lstrip(s))))
\* the process that a pid file names has the uuid in its command line
NamesUuid(p, uuid) ==
    /\ ~p.none
    /\ p.val \in Pids
    /\ procs[p.val].alive
    /\ \E k \in 1..Len(procs[p.val].cmdline) :
          contains(procs[p.val].cmdline[k], uuid)
NoPidIn(file) ==
    ~file.exists \/ ~file.readable \/ ~IsIntegerText(file.content)

\* C7: active raises nothing; with the pid file absent, unreadable or not a
\* number, pid is None and active is false; with a pid whose process is gone
\* or has a command line without the uuid, active is false; and active is
\* true only for a pid whose process has the uuid in its command line.
C7_StaleIsInactive ==
    \A uuid \in UUIDs :
        /\ active(pid_files, procs, uuid) \in {"True", "False"}
        /\ NoPidIn(pid_files[uuid]) =>
              /\ pid(pid_files, uuid) = None
              /\ active(pid_files, procs, uuid) = "False"
        /\ ~NamesUuid(pid(pid_files, uuid), uuid) =>
              active(pid_files, procs, uuid) # "True"
        /\ active(pid_files, procs, uuid) = "True" =>
              NamesUuid(pid(pid_files, uuid), uuid)

\* what enable did in the call: spawn calls it after its write
EnableEvents ==
    IF call.op = "spawn" THEN Tail(call.events) ELSE call.events

\* C8: enable on an active handle calls no command builder and executes
\* nothing; on an inactive one it calls the builder once, with the path of
\* the main pid file, and executes once the command that the builder
\* returned.
C8_EnableOnce ==
    call.op \in {"enable", "spawn"} =>
        /\ call.active = "True" => EnableEvents = <<>>
        /\ call.active = "False" =>
              /\ Len(EnableEvents) = 2
              /\ EnableEvents[1].ev = "callback"
              /\ EnableEvents[1].cmd = <<get_pid_file_name(call.uuid, "")>>
              /\ EnableEvents[2].ev = "execute"
              /\ EnableEvents[2].cmd =
                    callback(call.uuid, get_pid_file_name(call.uuid, ""))

\* an enable on an active handle
C8_Witness ==
    /\ call.op = "enable"
    /\ call.active = "True"
    /\ call.events = <<>>

\* C9: restart on an active handle sends one signal, HUP, to the pid of the
\* pid file; on an inactive one it sends no signal and starts no process;
\* either way the pid file is left as it was.
C9_RestartHup ==
    [][call'.op = "restart" =>
          /\ pid_files' = pid_files
          /\ active(pid_files, procs, call'.uuid) = "True" =>
                /\ Len(call'.events) = 1
                /\ IsSignal(call'.events[1])
                /\ call'.events[1].sig = "HUP"
                /\ call'.events[1].pid = pid(pid_files, call'.uuid).val
          /\ active(pid_files, procs, call'.uuid) # "True" =>
                /\ call'.events = <<>>
                /\ procs' = procs]_vars

\* a restart that sent HUP
C9_Witness ==
    /\ call.op = "restart"
    /\ call.active = "True"
    /\ Len(call.events) = 1

\* C10: disable(kill) on an active handle sends one signal to the pid of the
\* pid file: 9 when kill is true, 15 when it is false.
C10_DisableSignal ==
    (call.op = "disable" /\ call.active = "True") =>
        /\ Len(Signals(call.events)) = 1
        /\ Signals(call.events)[1].sig = (IF call.kill THEN "9" ELSE "15")
        /\ Signals(call.events)[1].pid = call.pid.val
        /\ ~call.pid.none

\* a disable(kill=True) on an active handle
C10_Witness ==
    /\ call.op = "disable"
    /\ call.active = "True"
    /\ call.kill
    /\ Len(Signals(call.events)) = 1

\* the events of the last call that are of kind ev
EventsOf(ev) == SelectSeq(call.events, LAMBDA e : e.ev = ev)

\* C11: disable on a handle that is not active sends no signal; and after
\* any disable, whatever the handle was and whatever kill is, the main pid
\* file does not exist, pid is None and active is false.
C11_DisableRemovesPidFile ==
    call.op = "disable" =>
        /\ call.active # "True" => Signals(call.events) = <<>>
        /\ ~pid_files[call.uuid].exists
        /\ pid(pid_files, call.uuid) = None
        /\ active(pid_files, procs, call.uuid) = "False"

\* C12: spawn_or_restart of a manager that spawned before: with the daemon
\* active it writes the configuration and sends one HUP, and executes no
\* command; with the daemon not active it removes the pid file, writes the
\* configuration and executes the spawn command once, and sends no signal.
C12_ReconfigureOrRespawn ==
    (call.op = "spawn_or_restart" /\ call.pm) =>
        /\ Len(EventsOf("write")) = 1
        /\ EventsOf("write")[1].conf = call.config
        /\ ~pid_files[call.uuid].exists \/ call.active = "True"
        /\ call.active = "True" =>
              /\ Len(Signals(call.events)) = 1
              /\ Signals(call.events)[1].sig = "HUP"
              /\ EventsOf("execute") = <<>>
        /\ call.active # "True" =>
              /\ Signals(call.events) = <<>>
              /\ Len(EventsOf("execute")) = 1
              /\ EventsOf("execute")[1].cmd =
                    callback(call.uuid, get_pid_file_name(call.uuid, ""))

\* C13: the manager's stop of a live daemon sends one signal: TERM for a
\* graceful teardown (HA disabled on the router), KILL for a forced one (the
\* router deleted).
C13_TeardownModes ==
    (call.op = "KeepalivedManager.disable" /\ call.pm /\ call.active = "True")
        => /\ Len(Signals(call.events)) = 1
           /\ Signals(call.events)[1].sig = (IF call.kill THEN "9" ELSE "15")

(***************************************************************************)
(* Properties of the configuration objects.                                *)
(***************************************************************************)
\* the step is the call op on the configuration, a group or an instance
ConfStep(op) == conf_op'.op = op

\* C14: an invalid value is rejected by the call that brings it and before
\* anything is changed: KeepalivedInstance() with a state that is neither
\* MASTER nor BACKUP raises InvalidInstanceStateException and gives no
\* instance, set_authentication() with a type that is neither AH nor PASS
\* raises and leaves the authentication as it was, and set_notify() with a
\* state that is not master, backup or fault raises
\* InvalidNotifyStateException and leaves the notifiers as they were.
C14_RejectedBeforeMutation ==
    [][/\ (ConfStep("KeepalivedInstance")
            /\ conf_op'.arg \notin {"MASTER", "BACKUP"})
           => /\ conf_op'.exc = "InvalidInstanceStateException"
              /\ conf_op'.made = 0
              /\ keepalived_conf' = keepalived_conf
       /\ (ConfStep("set_authentication")
            /\ conf_op'.arg \notin {"AH", "PASS"})
           => /\ conf_op'.exc # ""
              /\ keepalived_conf' = keepalived_conf
       /\ (ConfStep("set_notify")
            /\ conf_op'.arg \notin {"master", "backup", "fault"})
           => /\ conf_op'.exc = "InvalidNotifyStateException"
              /\ keepalived_conf' = keepalived_conf]_vars

\* an instance with an authentication was given one of an invalid type
C14_Witness ==
    /\ conf_op.op = "set_authentication"
    /\ conf_op.arg = "MD5"
    /\ conf_op.exc = "InvalidAuthenticationTypeExecption"
    /\ InstanceAt(conf_op.name) # 0
    /\ keepalived_conf.instances[InstanceAt(conf_op.name)].authentication
           = <<"AH", "pass123">>

C18_ResetClears ==
    [][/\ ConfStep("reset")
           => /\ keepalived_conf'.global_defs = <<>>
              /\ keepalived_conf'.groups = <<>>
              /\ keepalived_conf'.instances = <<>>
       /\ (conf_op.op = "reset" /\ ConfStep("build_config"))
           => conf_op'.lines = <<>>]_vars

\* reset() was called on a configuration that held three objects or more
C18_Witness ==
    /\ conf_op.op = "reset"
    /\ conf_op.items >= 3
    /\ keepalived_conf = KeepalivedConf

\* the line begins with the prefix
StartsWith(line, prefix) ==
    Len(line) >= Len(prefix) /\ SubSeq(line, 1, Len(prefix)) = prefix

\* the places of the lines returned last that begin with the prefix
Places(prefix) ==
    {i \in 1..Len(conf_op.lines) : StartsWith(conf_op.lines[i], prefix)}

\* the header of the block of a group or an instance is there once
Once(kind, name) ==
    Cardinality({i \in 1..Len(conf_op.lines) :
                    conf_op.lines[i] = kind \o name \o " {"}) = 1

\* the fields of a vrrp_instance block in the order required
FieldOrder ==
    <<"state", "interface", "virtual_router_id", "priority", "nopreempt",
      "garp_master_delay", "advert_int", "authentication", "mcast_src_ip",
      "track_interface", "virtual_ipaddress", "virtual_ipaddress_excluded",
      "virtual_routes">>

\* the place in that order of the field that the line opens, 0 for a line
\* that opens none of them
Rank(line) ==
    IF StartsWith(line, "\t\t") \/ ~StartsWith(line, "\t") THEN 0
    ELSE IF \E k \in 1..Len(FieldOrder) :
           \/ line = "\t" \o FieldOrder[k]
           \/ StartsWith(line, "\t" \o FieldOrder[k] \o " ")
    THEN CHOOSE k \in 1..Len(FieldOrder) :
           \/ line = "\t" \o FieldOrder[k]
           \/ StartsWith(line, "\t" \o FieldOrder[k] \o " ")
    ELSE 0

\* how many blocks were closed before the line at the place i
Closed(i) == Cardinality({k \in 1..(i - 1) : conf_op.lines[k] = "}"})

\* C20: in what build_config() returns, the global_defs block is there
\* exactly when global defaults are set and then comes first, every
\* vrrp_sync_group block comes before every vrrp_instance block, each
\* group and each instance of the configuration has its block once and
\* there is no other, and the fields of a vrrp_instance block come in the
\* order state, interface, virtual_router_id, priority, nopreempt,
\* garp_master_delay, advert_int, authentication, mcast_src_ip,
\* track_interface, virtual_ipaddress, virtual_ipaddress_excluded,
\* virtual_routes.
C20_BlockAndFieldOrder ==
    conf_op.op = "build_config" =>
        /\ Places("global_defs {") =
               (IF keepalived_conf.global_defs # <<>> THEN {1} ELSE {})
        /\ \A i \in Places("vrrp_sync_group "), j \in Places("vrrp_instance ") :
               i < j
        /\ \A k \in 1..Len(keepalived_conf.groups) :
               Once("vrrp_sync_group ", keepalived_conf.groups[k].name)
        /\ Cardinality(Places("vrrp_sync_group ")) = Len(keepalived_conf.groups)
        /\ \A k \in 1..Len(keepalived_conf.instances) :
               Once("vrrp_instance ", keepalived_conf.instances[k].name)
        /\ Cardinality(Places("vrrp_instance "))
               = Len(keepalived_conf.instances)
        /\ LET ranks == [i \in 1..Len(conf_op.lines) |->
                            Rank(conf_op.lines[i])]
               ranked == {i \in 1..Len(conf_op.lines) : ranks[i] > 0}
               closed == [i \in ranked |-> Closed(i)]
           IN  \A i, j \in ranked :
                   (i < j /\ closed[i] = closed[j]) => ranks[i] < ranks[j]

\* build_config() was called on a configuration with global defaults, a
\* group and an instance that was given every keyword and an address
C20_Witness ==
    /\ conf_op.op = "build_config"
    /\ keepalived_conf.global_defs # <<>>
    /\ keepalived_conf.groups # <<>>
    /\ \E k \in 1..Len(keepalived_conf.instances) :
           /\ keepalived_conf.instances[k].nopreempt
           /\ keepalived_conf.instances[k].vip_addresses # <<>>
    /\ Len(conf_op.lines) > 15

\* the lines returned last that make the block of the instance: from its
\* header to the first line after it that closes a block
BlockLines(name) ==
    LET h == CHOOSE i \in 1..Len(conf_op.lines) :
                 conf_op.lines[i] = "vrrp_instance " \o name \o " {"
        e == CHOOSE i \in h..Len(conf_op.lines) :
                 /\ conf_op.lines[i] = "}"
                 /\ \A j \in h..(i - 1) : conf_op.lines[j] # "}"
    IN  {conf_op.lines[i] : i \in h..e}

\* a line of the block opens the field
HasField(block, field) ==
    \E line \in block :
        line = "\t" \o field \/ StartsWith(line, "\t" \o field \o " ")

\* the fields of the block of an instance are those its contents ask for
BlockAsContents(instance, block) ==
    /\ HasField(block, "track_interface") <=> instance.track_interfaces # <<>>
    /\ HasField(block, "virtual_ipaddress") <=> instance.vip_addresses # <<>>
    /\ HasField(block, "virtual_ipaddress_excluded")
           <=> instance.vip_addresses_excluded # <<>>
    /\ HasField(block, "virtual_routes") <=> instance.virtual_routes # <<>>
    /\ HasField(block, "authentication") <=> instance.authentication # <<>>
    /\ ~instance.nopreempt => ~HasField(block, "nopreempt")
    /\ instance.garp_master_delay = NoneInt
           => ~HasField(block, "garp_master_delay")
    /\ instance.advert_int = NoneInt => ~HasField(block, "advert_int")
    /\ instance.mcast_src_ip = NoneStr => ~HasField(block, "mcast_src_ip")

\* C21: in what build_config() returns for an instance, each of the blocks
\* track_interface, virtual_ipaddress, virtual_ipaddress_excluded,
\* virtual_routes and authentication is there exactly when the list behind
\* it holds something, also after the calls that remove have emptied the
\* list, and nopreempt, garp_master_delay, advert_int and mcast_src_ip have
\* no line when they are not set.
C21_BlocksAsContents ==
    conf_op.op = "build_config" =>
        \A k \in 1..Len(keepalived_conf.instances) :
            BlockAsContents(keepalived_conf.instances[k],
                            BlockLines(keepalived_conf.instances[k].name))

\* build_config() was called right after remove_vips_vroutes_by_interface()
\* on an instance that is left with no address but with a route, and on
\* one that has such lists and no keyword set
C21_Witness ==
    /\ conf_op.op = "build_config"
    /\ conf_op.after = "remove_vips_vroutes_by_interface"
    /\ keepalived_conf.instances[1].vip_addresses = <<>>
    /\ keepalived_conf.instances[1].virtual_routes # <<>>
    /\ keepalived_conf.instances[1].advert_int = NoneInt

\* the lists of the instance that the call of conf_op is on, before the
\* step and after it
Before(list) == keepalived_conf.instances[InstanceAt(conf_op'.name)][list]
After(list) == keepalived_conf'.instances[InstanceAt(conf_op'.name)][list]

\* the items of the list before the step that are kept, in their order
Kept(list, field, value) ==
    SelectSeq(Before(list), LAMBDA item : item[field] # value)

\* C15: remove_vips_vroutes_by_interface(interface) removes from the
\* included VIPs, the excluded VIPs and the virtual routes exactly the
\* items whose interface_name is the argument, and leaves the others as
\* they were and in their order, whatever the lists hold.
C15_RemoveByInterface ==
    [][ConfStep("remove_vips_vroutes_by_interface")
          => \A list \in {"vip_addresses", "vip_addresses_excluded",
                           "virtual_routes"} :
                 After(list) = Kept(list, "interface_name", conf_op'.arg)]_vars

\* C16: after remove_vip_by_ip_address(ip) the included and the excluded
\* VIPs hold no item whose ip_address is the argument, whatever its
\* interface and however often it was there, the VIPs of another address
\* are as they were and in their order, and so are the virtual routes.
C16_RemoveByIpAddress ==
    [][ConfStep("remove_vip_by_ip_address")
          => /\ \A list \in {"vip_addresses", "vip_addresses_excluded"} :
                    After(list) = Kept(list, "ip_address", conf_op'.arg)
             /\ After("virtual_routes") = Before("virtual_routes")]_vars

\* the group g of the instance i1 (MASTER, eth0, virtual router 10, default
\* priority) with 10.0.0.1/24 on eth0, 10.0.0.2/24 on no interface and the
\* route 0.0.0.0/0 via 10.0.0.1 dev eth0
ScenarioConf ==
    RouterConf(RouterInstance(
        <<KeepalivedVipAddress("10.0.0.1/24", "eth0"),
          KeepalivedVipAddress("10.0.0.2/24", NoneStr)>>,
        <<>>,
        <<KeepalivedVirtualRoute("0.0.0.0/0", "10.0.0.1", "eth0")>>))

\* the lines expected of it after the first
ScenarioLines ==
    <<"\tgroup {", "\t\ti1", "\t}", "}",
      "vrrp_instance i1 {", "\tstate MASTER", "\tinterface eth0",
      "\tvirtual_router_id 10", "\tpriority 50",
      "\tvirtual_ipaddress {", "\t\t10.0.0.1/24 dev eth0", "\t\t10.0.0.2/24",
      "\t}",
      "\tvirtual_routes {", "\t\t0.0.0.0/0 via 10.0.0.1 dev eth0", "\t}",
      "}">>

BuiltScenario == conf_op.op = "build_config" /\ keepalived_conf = ScenarioConf

\* C19 as stated: build_config() of that configuration returns exactly the
\* lines of the scenario, the first being "vrrp_sync_group g { " with a
\* space at its end.
C19_ExactLines ==
    BuiltScenario => conf_op.lines = <<"vrrp_sync_group g { ">> \o ScenarioLines

\* C19, amended: build_config() of that configuration returns exactly the
\* lines of the scenario, the first being "vrrp_sync_group g {" with
\* nothing after the brace.
C19_ExactLinesNoTrailingSpace ==
    BuiltScenario => conf_op.lines = <<"vrrp_sync_group g {">> \o ScenarioLines

\* build_config() was called on the configuration of the scenario
C19_Witness == BuiltScenario /\ Len(conf_op.lines) = 18

\* the names of a dict, one per entry
Names(entries) == {entries[i].name : i \in 1..Len(entries)}

\* no name is the key of two entries of the dict
OnePerName(entries) ==
    \A i, j \in 1..Len(entries) : entries[i].name = entries[j].name => i = j

\* the call added the object made under the name: the dict holds it and not
\* what it held under that name, and the other names are as they were
Upserted(before, now, name, made) ==
    /\ get(now, "name", name) = <<made>>
    /\ Len(now) = Len(before) + (IF name \in Names(before) THEN 0 ELSE 1)
    /\ \A other \in Names(before) \cup Names(now) :
           other # name => get(now, "name", other) = get(before, "name", other)

\* the call deleted the name: nothing is held under it, the other names are
\* as they were, and where the name was not held nothing changed
Deleted(before, now, name) ==
    /\ get(now, "name", name) = <<>>
    /\ \A other \in Names(before) \cup Names(now) :
           other # name => get(now, "name", other) = get(before, "name", other)
    /\ name \notin Names(before) => now = before

\* C22: add_instance() and add_group() put the object under its name in the
\* place of what was held under that name, so that there is one object per
\* name and get_instance() (get_group()) returns the object added last and
\* not deleted since, or None; del_instance() and del_group() of a name that
\* is not held change nothing and raise nothing; no other call but reset()
\* changes which names are held.
C22_UpsertByName ==
    [][/\ OnePerName(keepalived_conf'.instances)
       /\ OnePerName(keepalived_conf'.groups)
       /\ ConfStep("KeepalivedInstance") /\ conf_op'.exc = ""
              => /\ Upserted(keepalived_conf.instances,
                             keepalived_conf'.instances, conf_op'.name,
                             get_instance(keepalived_conf', conf_op'.name)[1])
                 /\ get_instance(keepalived_conf', conf_op'.name)[1].state
                        = conf_op'.arg
                 /\ get_instance(keepalived_conf', conf_op'.name)[1]
                        .authentication = <<>>
                 /\ get_instance(keepalived_conf', conf_op'.name)[1]
                        .vip_addresses = <<>>
                 /\ get_instance(keepalived_conf', conf_op'.name)[1]
                        .track_interfaces = <<>>
       /\ ConfStep("KeepalivedGroup")
              => Upserted(keepalived_conf.groups, keepalived_conf'.groups,
                          conf_op'.name, KeepalivedGroup(conf_op'.name))
       /\ ConfStep("del_instance")
              => /\ Deleted(keepalived_conf.instances,
                            keepalived_conf'.instances, conf_op'.name)
                 /\ conf_op'.exc = ""
                 /\ keepalived_conf'.groups = keepalived_conf.groups
       /\ ConfStep("del_group")
              => /\ Deleted(keepalived_conf.groups,
                            keepalived_conf'.groups, conf_op'.name)
                 /\ conf_op'.exc = ""
                 /\ keepalived_conf'.instances = keepalived_conf.instances
       /\ conf_op'.op \notin {"KeepalivedInstance", "del_instance", "reset"}
              => Names(keepalived_conf'.instances)
                     = Names(keepalived_conf.instances)
       /\ conf_op'.op \notin {"KeepalivedGroup", "del_group", "reset"}
              => Names(keepalived_conf'.groups)
                     = Names(keepalived_conf.groups)]_vars

\* an instance was made under a name that held an instance with
\* authentication set, which get_instance() no longer returns, beside an
\* instance of another name
C22_Witness ==
    /\ conf_op.op = "KeepalivedInstance"
    /\ conf_op.exc = ""
    /\ conf_op.items = MaxItems - 1
    /\ Len(keepalived_conf.instances) = 2
    /\ get_instance(keepalived_conf, conf_op.name)[1].authentication = <<>>
    /\ \E k \in 1..2 : keepalived_conf.instances[k].authentication # <<>>

(***************************************************************************)
(* Properties of the notify script manager.                                *)
(***************************************************************************)
\* the lines of a text: what stands between its newlines
RECURSIVE splitlines(_)
splitlines(text) ==
    IF \A i \in 1..Len(text) : SubSeq(text, i, i) # "\n" THEN <<text>>
    ELSE LET nl == CHOOSE i \in 1..Len(text) :
                       /\ SubSeq(text, i, i) = "\n"
                       /\ \A j \in 1..(i - 1) : SubSeq(text, j, j) # "\n"
         IN  <<SubSeq(text, 1, nl - 1)>>
                 \o splitlines(SubSeq(text, nl + 1, Len(text)))

\* {conf_dir}/{uuid}/notify_{state}.sh
ScriptPath(state) ==
    <<"/tmp", "/", "router1", "/", "notify_" \o state \o ".sh">>

\* the calls of utils.replace_file that the call made on the path
Writes(path) ==
    {i \in 1..Len(notify_op.written) : notify_op.written[i].name = path}

\* the call wrote the script of the bucket, once, made it executable and
\* returned its path at the place i
ScriptWritten(i, state) ==
    /\ notify_op.returned[i] = <<ScriptPath(state)>>
    /\ Cardinality(Writes(ScriptPath(state))) = 1
    /\ \A k \in Writes(ScriptPath(state)) :
           splitlines(notify_op.written[k].data)
               = <<"#!/usr/bin/env bash">> \o manager_notifiers[state]
    /\ ScriptPath(state) \in DOMAIN disk.files
    /\ splitlines(disk.files[ScriptPath(state)].content)
           = <<"#!/usr/bin/env bash">> \o manager_notifiers[state]
    /\ "S_IEXEC" \in disk.files[ScriptPath(state)].mode
    /\ \E k \in 1..Len(notify_op.chmods) :
           notify_op.chmods[k] = ScriptPath(state)

\* the call wrote nothing for the bucket and returned None at the place i
ScriptAbsent(i, state) ==
    /\ notify_op.returned[i] = <<>>
    /\ Writes(ScriptPath(state)) = {}
    /\ \A k \in 1..Len(notify_op.chmods) :
           notify_op.chmods[k] # ScriptPath(state)

C24_AddNotify ==
    [][notify_op'.op = "add_notify" =>
          /\ DOMAIN manager_notifiers' = DOMAIN manager_notifiers
          /\ disk' = disk
          /\ IF notify_op'.state \in {"master", "backup", "fault"}
             THEN /\ notify_op'.exc = ""
                  /\ manager_notifiers'[notify_op'.state]
                         = manager_notifiers[notify_op'.state]
                               \o <<notify_op'.cmd>>
                  /\ \A key \in DOMAIN manager_notifiers :
                         key # notify_op'.state
                             => manager_notifiers'[key]
                                    = manager_notifiers[key]
             ELSE /\ notify_op'.exc = "InvalidNotifyStateException"
                  /\ manager_notifiers' = manager_notifiers]_vars

\* add_notify() was refused for the state aaa, which reset_notifiers() had
\* made a key of self.notifiers, when the buckets held commands
C24_Witness ==
    /\ notify_op.op = "add_notify"
    /\ notify_op.exc = "InvalidNotifyStateException"
    /\ "aaa" \in DOMAIN manager_notifiers
    /\ Len(manager_notifiers["backup"]) = 2

(***************************************************************************)
(* Properties of two managers side by side.                                *)
(***************************************************************************)
\* the process is the daemon that the manager of the resource started
DaemonOf(proc, uuid) ==
    /\ proc.alive
    /\ proc.cmdline = <<callback(uuid, get_pid_file_name(uuid, ""))>>

\* the step is a call of the manager of one resource
CallOf(uuid) ==
    /\ call'.op \in {"enable", "restart", "disable"}
    /\ call'.uuid = uuid

\* what a call may touch: of the files, the pid file of its own resource
OwnPidFile ==
    [][\A uuid, other \in PairUUIDs :
           CallOf(uuid) /\ other # uuid
               => /\ pid_files'[other] = pid_files[other]
                  /\ \A i \in 1..Len(call'.events) :
                         call'.events[i].ev \in {"callback", "unlink"}
                             => call'.events[i].cmd
                                    = <<get_pid_file_name(uuid, "")>>]_vars

\* C25: a call of enable, restart or disable on the ProcessManager of one
\* resource leaves the pid file and the daemon of every other resource as
\* they were, whatever calls were made before it on either manager.
C25_ManagersIndependent ==
    [][\A uuid, other \in PairUUIDs :
           CallOf(uuid) /\ other # uuid
               => /\ pid_files'[other] = pid_files[other]
                  /\ \A p \in Pids :
                         DaemonOf(procs[p], other) => procs'[p] = procs[p]]_vars

(***************************************************************************)
(* Properties of spawn.                                                    *)
(***************************************************************************)
\* C26: spawn() on a resource whose daemon is not active writes the
\* configuration once, the lines of build_config() joined by newlines, to
\* {conf_path}/{resource_id}/keepalived.conf, and executes one command,
\* which names that file after -f, {conf_path}/{resource_id}.pid after -p
\* and {conf_path}/{resource_id}-vrrp.pid after -r.
C26_SpawnWritesAndExecutes ==
    (call.op = "spawn" /\ call.active = "False") =>
        /\ call.exc = ""
        /\ Len(EventsOf("write")) = 1
        /\ EventsOf("write")[1].cmd
               = << <<"/tmp", "/", call.uuid, "/", "keepalived.conf">> >>
        /\ splitlines(EventsOf("write")[1].data)
               = build_config(ManagerConfig(call.config)).lines
        /\ Len(EventsOf("execute")) = 1
        /\ EventsOf("execute")[1].cmd
               = << <<"keepalived">>, <<"-P">>,
                    <<"-f">>, <<"/tmp", "/", call.uuid, "/", "keepalived.conf">>,
                    <<"-p">>, <<"/tmp", "/", call.uuid, ".pid">>,
                    <<"-r">>, <<"/tmp", "/", call.uuid, "-", "vrrp", ".pid">> >>
        /\ call.events[1].ev = "write"

\* a spawn() of the configuration that the agent had changed, on a resource
\* whose pid file names a process that is not its daemon
C26_Witness ==
    /\ call.op = "spawn"
    /\ call.active = "False"
    /\ ~call.pid.none
    /\ call.config = 2
    /\ Len(EventsOf("execute")) = 1

\* the commands that the last call executed, and those of them that failed
Executed == SelectSeq(call.events, LAMBDA e : e.ev \in {"kill", "execute"})
Failed == SelectSeq(call.events, LAMBDA e : e.ev = "failed")

\* C27: when the kill command or the command that starts the daemon fails,
\* enable, restart and disable raise that failure to their caller: the call
\* ends there, having executed the command once and done nothing after it,
\* and a call raises nothing when no command failed.
C27_FailurePropagates ==
    [][call'.op \in {"enable", "restart", "disable"} =>
          LET events == call'.events
          IN  IF \E i \in 1..Len(events) : events[i].ev = "failed"
              THEN /\ call'.exc = "RuntimeError"
                   /\ events[Len(events)].ev = "failed"
                   /\ Len(SelectSeq(events,
                          LAMBDA e : e.ev \in {"kill", "execute", "failed"}))
                          = 2
                   /\ events[Len(events) - 1].ev \in {"kill", "execute"}
                   /\ pid_files' = pid_files
                   /\ procs' = procs
              ELSE call'.exc = ""]_vars

\* a disable() whose kill command failed: the pid file is still there
C27_Witness ==
    /\ call.op = "disable"
    /\ call.exc = "RuntimeError"
    /\ Len(Failed) = 1
    /\ Len(Executed) = 1
    /\ pid_files[call.uuid].exists

(***************************************************************************)
(* Properties of the HA flag of a router.                                  *)
(***************************************************************************)
\* the router row has an identifier and HA ports with their bindings
HasHa(rows, ports, r) == rows[r].ha_vr_id # NULL /\ ports[r] > 0
\* it has no identifier and no HA port
HasNoHa(rows, ports, r) == rows[r].ha_vr_id = NULL /\ ports[r] = 0

\* C28: after every create, update and delete, a router has its ha flag
\* set exactly when its ha_vr_id is set and exactly when it has HA ports
\* with port bindings: an update that sets the flag creates the ports, one
\* per agent, and allocates an identifier, and an update that clears it
\* deletes the ports and clears the identifier.
C28_HaFlagVrIdPorts ==
    [][\A r \in RouterIds :
           /\ routers'[r].exists /\ routers'[r].ha
                 => /\ HasHa(routers', ha_ports', r)
                    /\ routers'[r].ha_vr_id \in 1..VR_ID_MAX
           /\ routers'[r].exists /\ ~routers'[r].ha
                 => HasNoHa(routers', ha_ports', r)
           /\ ~routers'[r].exists => ha_ports'[r] = 0
           /\ (routers[r].exists /\ ~routers[r].ha /\ routers'[r].ha)
                 => /\ last'.op = "update"
                    /\ ha_ports'[r] >= min_l3_agents_per_router
           /\ (routers[r].ha /\ routers'[r].exists /\ ~routers'[r].ha)
                 => last'.op = "update"]_vars

\* an update cleared the ha flag of a router while another router of the
\* run has it set
C28_Witness ==
    /\ last.op = "update"
    /\ last.notify = "del_ha_interfaces"
    /\ ~routers[last.router].ha
    /\ HasNoHa(routers, ha_ports, last.router)
    /\ \E r \in RouterIds : routers[r].exists /\ routers[r].ha

(***************************************************************************)
(* Properties of the routers_updated notification.                         *)
(***************************************************************************)
\* worker w leaves its `with` block in the step
EndsBlock(w) == txn[w].pc = "commit" /\ txn'[w].pc = "idle"
\* the one cast of a command about router r
OneCast(r, command) == <<[routers |-> <<r>>, command |-> command]>>
\* the command that goes with the flag that the block of x wrote
CommandOf(x) ==
    IF x.ha /\ (x.op = "create" \/ ~routers[x.router].ha)
    THEN "add_ha_interfaces"
    ELSE IF ~x.ha /\ x.op = "update" /\ routers[x.router].ha
    THEN "del_ha_interfaces"
    ELSE ""

\* C29: a request that creates an HA router or changes the ha flag of a
\* router casts routers_updated once, for that router alone, with
\* 'add_ha_interfaces' when the flag was set and 'del_ha_interfaces' when it
\* was cleared, in the step that ends its transaction block and writes the
\* row; a request that creates a router without HA, that leaves the flag as
\* it was, or that raised inside its block casts nothing, and nothing is cast
\* while a block is open.
C29_NotifiedOnceAfterBlock ==
    [][/\ \A w \in Workers :
             EndsBlock(w) =>
                 LET x == txn[w]
                 IN  /\ last'.router = x.router
                     /\ last'.op = x.op
                     /\ routers'[x.router].ha = x.ha
                     /\ last'.casts = IF CommandOf(x) = "" THEN <<>>
                                      ELSE OneCast(x.router, CommandOf(x))
       /\ (\A w \in Workers : ~EndsBlock(w)) =>
             \/ last' = last
             \/ last'.exc # "" /\ last'.casts = <<>>
       /\ last'.exc # "" => last'.casts = <<>>]_vars

\* the block of an update that set the flag of a router has ended with its
\* one cast, no block is open, and another router of the run has no HA
C29_Witness ==
    /\ last.op = "update"
    /\ last.casts = OneCast(last.router, "add_ha_interfaces")
    /\ routers[last.router].ha
    /\ \A w \in Workers : txn[w].pc = "idle"
    /\ \E r \in RouterIds : routers[r].exists /\ ~routers[r].ha

(***************************************************************************)
(* Properties of the HA networks of the tenants.                           *)
(***************************************************************************)
\* the step is a create_router of tenant t that made an HA router
CreatedHa(t) ==
    /\ last'.op = "create"
    /\ last'.tenant = t
    /\ ~routers[last'.router].exists
    /\ routers'[last'.router].exists
    /\ routers'[last'.router].ha
\* one HA network with one subnet
OneNetwork == <<1>>

\* C30: with requests served one at a time, a tenant has at most one HA
\* network, with one subnet, and has one as soon as it has an HA router: the
\* creation of the first HA router of a tenant adds the network and its
\* subnet, the creation of a later one leaves the networks as they are, and
\* no creation touches the network of another tenant.
C30_OneHaNetworkPerTenant ==
    [][\A t \in Tenants :
           /\ ha_networks'[t] \in {<<>>, OneNetwork}
           /\ (HaRouters(t) # {} \/ base[t] # {})'
                 => ha_networks'[t] = OneNetwork
           /\ CreatedHa(t) =>
                 /\ ha_networks'[t] = OneNetwork
                 /\ ha_networks[t] = OneNetwork => ha_networks' = ha_networks
                 /\ \A u \in Tenants \ {t} : ha_networks'[u] = ha_networks[u]
           /\ (~CreatedHa(t) /\ last'.op = "create") =>
                 ha_networks'[t] = ha_networks[t]]_vars

\* the second HA router of a tenant was created on the network of the
\* first, and the other tenant, which has no HA router, has no network
C30_Witness ==
    /\ last.op = "create"
    /\ last.exc = ""
    /\ routers[last.router].ha
    /\ Cardinality(HaRouters(last.tenant)) >= 2
    /\ ha_networks[last.tenant] = OneNetwork
    /\ \A t \in Tenants \ {last.tenant} : ha_networks[t] = <<>>

(***************************************************************************)
(* Properties of the number of HA ports.                                   *)
(***************************************************************************)
Smaller(a, b) == IF a < b THEN a ELSE b
\* the step is a request that asked for the HA interfaces of its router
AsksHaInterfaces ==
    /\ last'.op \in {"create", "update"}
    /\ last'.exc # "" \/ last'.notify = "add_ha_interfaces"
\* router r is (still) no HA router and has no HA port
NoHaRouter(r) ==
    /\ ~(routers'[r].exists /\ routers'[r].ha)
    /\ ha_ports'[r] = 0
    /\ ha_bindings'[r] = <<>>
    /\ routers'[r] = routers[r]

\* C31: a create or an HA enable that finds n l3 agents gives the router
\* as many HA ports, each with its binding, as the smaller of n and
\* max_l3_agents_per_router, or n when the maximum is 0; it raises
\* HAMinimumAgentsNumberNotValid when min_l3_agents_per_router is below 2
\* and HANotEnoughAvailableAgents when that number of ports is below the
\* minimum, and then the router is no HA router and has no HA port.
C31_NumberOfHaPorts ==
    [][AsksHaInterfaces =>
          LET n == last'.add_ha
              r == last'.router
              num == IF CONF.max_l3_agents_per_router # 0
                     THEN Smaller(n, CONF.max_l3_agents_per_router)
                     ELSE n
          IN  IF CONF.min_l3_agents_per_router < 2
              THEN /\ last'.exc = "HAMinimumAgentsNumberNotValid"
                   /\ NoHaRouter(r)
              ELSE IF num < CONF.min_l3_agents_per_router
              THEN /\ last'.exc = "HANotEnoughAvailableAgents"
                   /\ NoHaRouter(r)
              ELSE /\ last'.exc = ""
                   /\ routers'[r].ha
                   /\ ha_ports'[r] = num
                   /\ Len(ha_bindings'[r]) = num]_vars

\* with a maximum of 3 and a minimum of 2, a router whose request found 4
\* l3 agents has 3 HA ports
C31_Witness ==
    /\ CONF.max_l3_agents_per_router = 3
    /\ CONF.min_l3_agents_per_router = 2
    /\ last.exc = ""
    /\ last.add_ha = 4
    /\ routers[last.router].ha
    /\ ha_ports[last.router] = 3

(***************************************************************************)
(* Properties of the state reports.                                        *)
(***************************************************************************)
\* the step is an update_router_state
StateStep == state_op' # state_op
\* the report of the step is about binding port of router r
Reported(r, port) ==
    /\ r = state_op'.router_id
    /\ state_op'.host # NoHost => ha_bindings[r][port].agent = state_op'.host
\* the step sets the bindings that its report is about to state, and leaves
\* every other binding as it was
SetsState(state) ==
    \A r \in RouterIds :
        /\ DOMAIN ha_bindings'[r] = DOMAIN ha_bindings[r]
        /\ \A port \in DOMAIN ha_bindings[r] :
              IF Reported(r, port)
              THEN ha_bindings'[r][port] =
                       [ha_bindings[r][port] EXCEPT !.state = state]
              ELSE ha_bindings'[r][port] = ha_bindings[r][port]
\* a step that is no report leaves the state of every binding as it was
\* and makes new bindings with state 'slave'
KeepsState ==
    \A r \in RouterIds : \A port \in DOMAIN ha_bindings'[r] :
        ha_bindings'[r][port].state =
            IF port \in DOMAIN ha_bindings[r]
            THEN ha_bindings[r][port].state ELSE "slave"

\* a report of a state that the column lists is stored as it is
ListedStateStored ==
    [][IF StateStep
       THEN state_op'.state \in l3_ha_states
               => state_op'.exc = "" /\ SetsState(state_op'.state)
       ELSE KeepsState]_vars

\* C32: update_router_state(router_id, state, host) leaves every binding of
\* the router (of the router and the host, when a host is given) with
\* exactly the state reported and every other binding as it was, and a
\* binding that no report was about has state 'slave'.
C32_StateForwardedVerbatim ==
    [][IF StateStep THEN SetsState(state_op'.state) ELSE KeepsState]_vars

(***************************************************************************)
(* Properties of the release of identifiers.                               *)
(***************************************************************************)
\* the identifiers of 1..254 that no router of tenant t holds
FreeVrIds(t) == (1..VR_ID_MAX) \ HeldVrIds(t)
\* whether identifier v is held by none of the rows of tenant t
FreeIn(rows, earlier, t, v) ==
    /\ v \notin earlier[t]
    /\ \A r \in TenantRouters(rows, t) : rows[r].ha_vr_id # v
\* the step deletes router r or clears its ha flag
Releases(r) ==
    /\ routers[r].exists
    /\ routers[r].ha
    /\ ~(routers'[r].exists /\ routers'[r].ha)

\* C33: every allocation works from the identifiers that the routers of
\* the tenant hold at that moment: the identifier of a router that is
\* deleted or whose ha flag is cleared is free in the same step, an
\* allocation succeeds whenever an identifier is free and takes a free one,
\* so that with 254 identifiers held and one of them released the next
\* allocation of the tenant succeeds with the identifier released.
C33_ReleasedIsReused ==
    [][/\ \A r \in RouterIds :
             Releases(r) =>
                 FreeIn(routers', base', routers[r].tenant,
                        routers[r].ha_vr_id)
       /\ \A t \in Tenants, v \in DeletableBase :
             (v \in base[t] /\ v \notin base'[t])
                 => FreeIn(routers', base', t, v)
       /\ (AddHaStep /\ last'.add_ha >= min_l3_agents_per_router) =>
             LET t == last'.tenant
             IN  /\ FreeVrIds(t) # {} =>
                       /\ last'.exc = ""
                       /\ routers'[last'.router].ha_vr_id \in FreeVrIds(t)
                 /\ FreeVrIds(t) = {} => last'.exc = "NoVRIDAvailable"]_vars

\* the tenant held 254 identifiers, one of the routers that held them from
\* before the run was deleted, and the request that ended last was given
\* the identifier of that router: all 254 are held again
C33_Witness ==
    /\ baseDeleted
    /\ last.exc = ""
    /\ last.notify = "add_ha_interfaces"
    /\ routers[last.router].ha_vr_id \in DeletableBase
    /\ \E r \in RouterIds \ {last.router} :
          routers[r].exists /\ routers[r].ha_vr_id = VR_ID_MAX
    /\ Exhausted(last.tenant)

(***************************************************************************)
(* Properties of the daemons of one resource.                              *)
(***************************************************************************)
\* the daemons of the resource that are running
Daemons(uuid) == {p \in Pids : DaemonOf(procs[p], uuid)}

\* C34: at any time at most one daemon that the manager of a resource
\* started is running, also while a daemon that an earlier call started has
\* not written its pid file yet, and while one that disable sent TERM to is
\* still ending after its pid file was unlinked.
C34_OneDaemonPerResource ==
    \A uuid \in UUIDs : Cardinality(Daemons(uuid)) <= 1


\* the places of the events of the last call that wrote keepalived.conf
ConfigWrites == {i \in 1..Len(call.events) : call.events[i].ev = "write"}
\* the call started the daemon or sent it HUP after its last write
LoadedAfterWrite ==
    \E i \in 1..Len(call.events) :
        /\ LoadsConfig(call.events[i])
        /\ \A j \in ConfigWrites : j < i

\* C36: when spawn or spawn_or_restart has returned normally, no process
\* event having happened during the call, and the daemon is active, the
\* daemon was started or sent HUP after the last write of the configuration
\* file in the call; a manager that has no ProcessManager yet and whose
\* daemon runs from an earlier manager is included.
C36_DaemonRunsWrittenConfig ==
    (/\ call.op \in {"spawn", "spawn_or_restart"}
     /\ call.exc = ""
     /\ active(pid_files, procs, call.uuid) = "True") => LoadedAfterWrite


\* the command line of a process holds the uuid
HoldsUuid(proc, uuid) ==
    \E k \in 1..Len(proc.cmdline) : contains(proc.cmdline[k], uuid)

\* C35: a signal of ProcessManager only reaches a process whose command line
\* holds the uuid of the resource when the signal is delivered, whatever
\* process ends, whatever process of another takes its pid and however the
\* pid file is written again between the statements of _kill, which reads
\* the pid, reads it again in the active check and signals the pid read
\* first.
C35_SignalsOwnProcess ==
    frame.hit.alive => HoldsUuid(frame.hit, frame.uuid)

\* C37: when a process ended while spawn_or_restart was in restart(), between
\* the active check of the manager and the kill command of
\* ProcessManager.restart() included, and spawn_or_restart returned normally,
\* the call sent HUP to a live process or executed the command that starts the
\* daemon.
C37_ReloadedOrStarted ==
    (/\ frame.op = "spawn_or_restart"
     /\ frame.pc = "done"
     /\ frame.exc = ""
     /\ frame.exited) =>
        \E i \in 1..Len(frame.events) : LoadsConfig(frame.events[i])


\* C38: after any sequence of add_notify and reset_notifiers calls, a
\* reset_notifiers with any state argument included, the keys of the buckets
\* of a KeepalivedNotifyScriptManager are master, backup and fault and no
\* other.
C38_BucketKeys == DOMAIN manager_notifiers = {"master", "backup", "fault"}


\* the place of the "group {" line that opens the list of members in which
\* the line at place i of the lines returned last stands, 0 when the line is
\* no member of a group
MemberOf(i) ==
    LET opens == {g \in 1..(i - 1) :
                     /\ conf_op.lines[g] = "\tgroup {"
                     /\ \A k \in (g + 1)..i :
                            StartsWith(conf_op.lines[k], "\t\t")}
    IN  IF opens = {} THEN 0 ELSE CHOOSE g \in opens : TRUE
\* the places of the member lines of the vrrp_sync_group blocks
MemberPlaces == {i \in 1..Len(conf_op.lines) : MemberOf(i) # 0}
\* the instance name that a member line lists
MemberName(i) == SubSeq(conf_op.lines[i], 3, Len(conf_op.lines[i]))

\* C39: whatever add_instance, del_instance, add_group and del_group calls
\* were made on a KeepalivedConf and whatever add_instance and
\* remove_instance calls on its groups, every instance name that a
\* vrrp_sync_group block of build_config() lists is the name of a
\* vrrp_instance block of the same lines, and a group lists a member name
\* once.
C39_GroupMembersAreInstances ==
    conf_op.op = "build_config" =>
        /\ \A i \in MemberPlaces :
               \E j \in 1..Len(conf_op.lines) :
                   conf_op.lines[j]
                       = "vrrp_instance " \o MemberName(i) \o " {"
        /\ \A i, k \in MemberPlaces :
               (MemberOf(i) = MemberOf(k) /\ MemberName(i) = MemberName(k))
                   => i = k

\* a group lists each of its members once in build_config(), however often
\* and in whatever order they were added
MembersListedOnce ==
    conf_op.op = "build_config" =>
        \A i, k \in MemberPlaces :
            (MemberOf(i) = MemberOf(k) /\ MemberName(i) = MemberName(k))
                => i = k

=============================================================================
